---- MODULE Spec2Model ----
(***************************************************************************)
(* Payment orchestration of the gameHub backend: the OAuth token cache     *)
(* (lib/mpesa.js), the subscribe / webhook / status-check handlers         *)
(* (routes/subscription.js), the Subscription documents (models) and the   *)
(* expiry sweep (scripts/expiryChecker.js).                                *)
(*                                                                         *)
(* Every handler is an async function: it runs atomically between two      *)
(* awaits, and other handlers interleave at each await.  A handler in      *)
(* progress is a slot of `procs` holding its position (pc) and its locals. *)
(* An awaited operation on the collection runs in a step of its own: after *)
(* the step that sends it, with the arguments built then, and before the   *)
(* step in which the handler resumes and reads the clock or the cache.     *)
(*                                                                         *)
(* Two things are fixed when the server starts and never change: the file  *)
(* the Subscription model is compiled from (the repository holds two       *)
(* subscriptionSchema definitions) and the time zone of the process, in    *)
(* whose wall-clock time Date.setHours and Date.setDate count.             *)
(***************************************************************************)
EXTENDS Integers, Sequences, FiniteSets, TLC

\* ---------------------------------------------------------------- bounds
MaxTicks == 2        \* how many times the clock advances by TickMs
MaxHours == 1        \* how many times the clock advances by an hour
TickMs == 20000      \* the clock step where token lifetimes are at stake
MaxSubs == 1         \* how many Subscription documents are created
MaxSweepSubs == 2    \* the same, where a run of the sweep is studied
MaxSweepHours == 2   \* how many hours pass where runs of the sweep meet
MaxPairSubs == 2     \* how many documents two concurrent handlers create
MaxWebhooks == 2     \* how many requests to the webhook are in flight
OneWebhook == 1      \* the same, where one handler of each kind is studied

\* ------------------------------------------------------- program constants
SafetyMarginMs == 30000      \* Date.now() + 30000
DefaultRetries == 3          \* getMpesaToken(retries = 3)
DefaultLifetimeS == 3600     \* response.data.expires_in || 3600
MsPerSecond == 1000          \* ... * 1000
MsPerHour == 3600000         \* Date.setHours
MsPerDay == 86400000         \* Date.setDate
DefaultDurationDays == 30    \* endDate.getDate() + 30

\* The clock of the model counts seconds: every span of time the program
\* adds or compares is a whole number of seconds, and thirty days counted
\* in milliseconds are more than the integers here can hold.  A span the
\* program states in milliseconds, on that clock:
Seconds(ms) == ms \div MsPerSecond

\* ------------------------------------------------------------- the values
Null == "null"               \* null / undefined of a string-valued field
NoDate == -1                 \* null of a Date- or Number-valued field

Procs == {"h1", "h2"}        \* handler invocations that may be in flight
Users == {"u1"}
Sweepers == {"s1", "s2"}     \* runs of checkExpiredSubscriptions in flight

Tokens == {"tokA", "tokB"}   \* access_token values the gateway hands out
Lifetimes == {0, 45}         \* expires_in values (0: the field is absent)
\* The ways an exchange fails: a body with an error field, a body without
\* access_token, a 4xx answer (validateStatus lets it through, its body has
\* no access_token), a 5xx answer, a network error, the request timeout.
TokenFailures ==
    {"error_field", "no_token", "http4xx", "http5xx", "network", "timeout"}

VARIABLES
    now,          \* Date.now(), in seconds since the start
    ticks,        \* how many times the clock has advanced
    tokenCache,   \* lib/mpesa.js: let tokenCache = {token, expiresAt}
    procs,        \* the handler invocations in flight
    subs,         \* the Subscription collection, in insertion order
    issued,       \* how many CheckoutRequestIDs the gateway has issued
    sweeps,       \* the runs of the expiry sweep
    cb,           \* the invocations of the webhook handler in flight
    lastCb,       \* the answer of the webhook handler, when the step just
                  \* taken is the one that sends it
    schema,       \* the file that defines the subscriptionSchema in use
    zone          \* the time zone of the process (TZ)

vars ==
    <<now, ticks, tokenCache, procs, subs, issued, sweeps, cb, lastCb, schema,
      zone>>
dbVars == <<subs, issued>>
deployment == <<schema, zone>>

\* A string that is truthy: neither null / undefined nor empty.
Truthy(s) == s # Null /\ s # ""

\* The step taken sends no answer of the webhook handler.
NoCb == [branch |-> "none", http |-> 0, code |-> 0, sub |-> 0]

\* The step taken is not the webhook handler's.
NotCallback == lastCb' = NoCb /\ UNCHANGED cb

\* ------------------------------------------------------------ token cache
IdleProc ==
    [kind |-> "idle", pc |-> "idle", retries |-> 0, res |-> Null,
     cause |-> Null, peers |-> {}, sent |-> 0, user |-> Null, sub |-> 0,
     plan |-> 0, formatted |-> <<>>, reqs |-> 0, msg |-> Null,
     phone |-> <<>>, t |-> NoDate, snap |-> NoDate, cid |-> Null, http |-> 0]

\* CacheValid with twice the safety margin.
CacheValid_DoubleMargin(cache, t) ==
    /\ Truthy(cache.token)
    /\ cache.expiresAt > t + 2 * Seconds(SafetyMarginMs)

\* if (tokenCache.token && tokenCache.expiresAt > Date.now() + 30000)
CacheValid(cache, t) ==
    /\ Truthy(cache.token)
    /\ cache.expiresAt > t + Seconds(SafetyMarginMs)

\* The callers whose token exchange is awaiting the gateway's answer.  A
\* caller's `peers` are the callers whose exchange was in flight together
\* with its own.
Exchanging == {p \in Procs : procs[p].pc = "tok_wait"}

\* The synchronous head of getMpesaToken(retries): the cached token, or the
\* GET to the token endpoint is sent and the call awaits the response.
\* `sent` counts the exchange requests the call has sent, retries included.
TokenEnter(p, kind, retries, base) ==
    IF CacheValid(tokenCache, now)
    THEN [base EXCEPT ![p] = [@ EXCEPT !.kind = kind, !.pc = "tok_ret",
                                         !.retries = retries,
                                         !.res = tokenCache.token,
                                         !.cause = Null]]
    ELSE [q \in Procs |->
            IF q = p
            THEN [base[q] EXCEPT !.kind = kind, !.pc = "tok_wait",
                                 !.retries = retries, !.res = Null,
                                 !.cause = Null, !.sent = @ + 1,
                                 !.peers = base[q].peers \cup (Exchanging \ {p})]
            ELSE IF q \in Exchanging
                 THEN [base[q] EXCEPT !.peers = @ \cup {p}]
                 ELSE base[q]]

\* A caller outside the handlers (the module's default export) calls
\* getMpesaToken().
GetTokenCall(p) ==
    /\ procs[p].pc = "idle"
    /\ procs' = TokenEnter(p, "token", DefaultRetries, procs)
    /\ UNCHANGED <<now, ticks, sweeps, tokenCache, dbVars>>
    /\ NotCallback
    /\ UNCHANGED deployment

\* ExpiresAt with the default lifetime whatever the gateway reports.
ExpiresAt_DefaultLifetime(t, life) ==
    t + Seconds(DefaultLifetimeS * MsPerSecond)

\* Date.now() + (response.data.expires_in || 3600) * 1000
ExpiresAt(t, life) ==
    t + Seconds((IF life = 0 THEN DefaultLifetimeS ELSE life) * MsPerSecond)

\* The gateway answers the exchange of p with the access token tok and the
\* lifetime life: the cache is replaced and the token returned.
TokenGrant(p, tok, life) ==
    /\ procs[p].pc = "tok_wait"
    /\ tokenCache' = [token |-> tok, expiresAt |-> ExpiresAt(now, life)]
    /\ procs' = [procs EXCEPT ![p].pc = "tok_ret", ![p].res = tok]
    /\ UNCHANGED <<now, ticks, sweeps, dbVars>>
    /\ NotCallback
    /\ UNCHANGED deployment

\* The gateway answers with one of `tokens` and a lifetime of `lifetimes`.
TokenGranted(p, tokens, lifetimes) ==
    \E tok \in tokens, life \in lifetimes : TokenGrant(p, tok, life)

\* ShouldRetry with one retry more.
ShouldRetry_OneMore(retries, failure) == retries >= 0 /\ failure # "timeout"

\* if (retries > 0 && err.code !== 'ECONNABORTED')
ShouldRetry(retries, failure) == retries > 0 /\ failure # "timeout"

\* TokenFail with a catch block that also empties the cache.
TokenFail_ClearsCache(p, f) ==
    /\ procs[p].pc = "tok_wait"
    /\ procs' = IF ShouldRetry(procs[p].retries, f)
                THEN [procs EXCEPT ![p].pc = "tok_delay"]
                ELSE [procs EXCEPT ![p].pc = "tok_ret", ![p].res = Null,
                                   ![p].cause = f]
    /\ tokenCache' = [token |-> Null, expiresAt |-> NoDate]
    /\ UNCHANGED <<now, ticks, sweeps, dbVars>>
    /\ NotCallback
    /\ UNCHANGED deployment

\* The exchange of p fails in the way f.  The catch block retries after the
\* delay or throws an error that carries the message of f.
TokenFail(p, f) ==
    /\ procs[p].pc = "tok_wait"
    /\ procs' = IF ShouldRetry(procs[p].retries, f)
                THEN [procs EXCEPT ![p].pc = "tok_delay"]
                ELSE [procs EXCEPT ![p].pc = "tok_ret", ![p].res = Null,
                                   ![p].cause = f]
    /\ UNCHANGED <<now, ticks, sweeps, tokenCache, dbVars>>
    /\ NotCallback
    /\ UNCHANGED deployment

\* The exchange fails in one of the ways `failures`.
TokenFailed(p, failures) == \E f \in failures : TokenFail(p, f)

\* The 2 s delay has passed: return getMpesaToken(retries - 1).
TokenRetry(p) ==
    /\ procs[p].pc = "tok_delay"
    /\ procs' = TokenEnter(p, procs[p].kind, procs[p].retries - 1, procs)
    /\ UNCHANGED <<now, ticks, sweeps, tokenCache, dbVars>>
    /\ NotCallback
    /\ UNCHANGED deployment

\* The outside caller receives the token or the error.
GetTokenReturn(p) ==
    /\ procs[p].pc = "tok_ret"
    /\ procs[p].kind = "token"
    /\ procs' = [q \in Procs |->
                  IF q = p THEN IdleProc
                  ELSE [procs[q] EXCEPT !.peers = @ \ {p}]]
    /\ UNCHANGED <<now, ticks, sweeps, tokenCache, dbVars>>
    /\ NotCallback
    /\ UNCHANGED deployment

\* ------------------------------------------------------ phone normalizer
Digits == {"0", "1", "2", "3", "4", "5", "6", "7", "8", "9"}
IsDigit(c) == c \in Digits

\* cleaned.startsWith(prefix)
StartsWith(s, prefix) ==
    /\ Len(s) >= Len(prefix)
    /\ SubSeq(s, 1, Len(prefix)) = prefix

\* FormatPhoneNumber without the shape of 9 digits that start with 7.
FormatPhoneNumber_NoBareSeven(phone) ==
    LET cleaned == SelectSeq(phone, IsDigit) IN
    IF phone = <<>>
    THEN [ok |-> FALSE, value |-> <<>>]
    ELSE IF StartsWith(cleaned, <<"0">>)
    THEN [ok |-> TRUE, value |-> <<"2", "5", "4">> \o Tail(cleaned)]
    ELSE IF StartsWith(cleaned, <<"2", "5", "4">>) /\ Len(cleaned) = 12
    THEN [ok |-> TRUE, value |-> cleaned]
    ELSE IF StartsWith(cleaned, <<"+", "2", "5", "4">>)
    THEN [ok |-> TRUE, value |-> Tail(cleaned)]
    ELSE [ok |-> FALSE, value |-> <<>>]

\* formatPhoneNumber(phone): [ok, value]; ok = FALSE when it throws.
FormatPhoneNumber(phone) ==
    LET cleaned == SelectSeq(phone, IsDigit) IN
    IF phone = <<>>
    THEN [ok |-> FALSE, value |-> <<>>]
    ELSE IF StartsWith(cleaned, <<"0">>)
    THEN [ok |-> TRUE, value |-> <<"2", "5", "4">> \o Tail(cleaned)]
    ELSE IF StartsWith(cleaned, <<"7">>) /\ Len(cleaned) = 9
    THEN [ok |-> TRUE, value |-> <<"2", "5", "4">> \o cleaned]
    ELSE IF StartsWith(cleaned, <<"2", "5", "4">>) /\ Len(cleaned) = 12
    THEN [ok |-> TRUE, value |-> cleaned]
    ELSE IF StartsWith(cleaned, <<"+", "2", "5", "4">>)
    THEN [ok |-> TRUE, value |-> Tail(cleaned)]
    ELSE [ok |-> FALSE, value |-> <<>>]

\* The phone numbers the subscribe requests carry.
GoodPhone == <<"0", "7", "1", "2", "3", "4", "5", "6", "7", "8">>
BadPhone == <<"1", "2", "3">>
PhoneInputs == {<<>>, GoodPhone, BadPhone}

\* The phone numbers a direct caller of formatPhoneNumber passes: a prefix,
\* a subscriber number of 9 digits, or one digit short or long, and
\* separators or none.
Sub7 == <<"7", "1", "2", "3", "4", "5", "6", "7", "8">>
Sub1 == <<"1", "1", "2", "3", "4", "5", "6", "7", "8">>

PhoneBodies == {Sub7, Sub1, SubSeq(Sub7, 1, 8), Sub7 \o <<"9">>}

PhonePrefixes ==
    {<<>>, <<"0">>, <<"2", "5", "4">>, <<"+", "2", "5", "4">>, <<"+">>,
     <<"2", "5", "5">>}

\* The number written plainly (0), with a dash after the prefix (1), or
\* with spaces around the first three digits of the body (2).
Written(prefix, body, style) ==
    CASE style = 0 -> prefix \o body
      [] style = 1 -> prefix \o <<"-">> \o body
      [] style = 2 -> prefix \o <<" ">> \o SubSeq(body, 1, 3) \o <<" ">>
                        \o SubSeq(body, 4, Len(body))

PhoneSpace ==
    PhoneInputs
      \cup {Written(prefix, body, style) :
               prefix \in PhonePrefixes, body \in PhoneBodies,
               style \in 0..2}

\* A caller outside the handlers (the module's default export) calls
\* formatPhoneNumber(phone): the canonical number, or the error thrown.
FormatCall(p) ==
    /\ procs[p].pc = "idle"
    /\ \E phone \in PhoneSpace :
         LET r == FormatPhoneNumber(phone) IN
         procs' = [procs EXCEPT ![p].kind = "format", ![p].pc = "fmt_ret",
                                ![p].phone = phone,
                                ![p].formatted = r.value,
                                ![p].cause = IF r.ok THEN Null
                                             ELSE "invalid_phone"]
    /\ UNCHANGED <<now, ticks, sweeps, tokenCache, dbVars>>
    /\ NotCallback
    /\ UNCHANGED deployment

\* The caller has the result.
FormatReturn(p) ==
    /\ procs[p].pc = "fmt_ret"
    /\ procs' = [procs EXCEPT ![p] = IdleProc]
    /\ UNCHANGED <<now, ticks, sweeps, tokenCache, dbVars>>
    /\ NotCallback
    /\ UNCHANGED deployment

\* ------------------------------------------------------------ collections
\* The Plan collection (seedPlans.js), and a plan stored with the schema's
\* default durations; a duration of 0 is a null duration.
PlanDocs ==
    << [category |-> "gaming", plan |-> "Hourly Pass", amount |-> 50,
        durationHours |-> 1, durationDays |-> 0],
       [category |-> "gaming", plan |-> "Daily Pass", amount |-> 300,
        durationHours |-> 0, durationDays |-> 1],
       [category |-> "gaming", plan |-> "Open Pass", amount |-> 100,
        durationHours |-> 0, durationDays |-> 0] >>

CategoryInputs == {Null, "", "gaming"}

\* The plan names of the requests: none, the stored plans, an unknown one;
\* and those of the requests where one plan is enough.
PlanInputs == {Null, "Hourly Pass", "Daily Pass", "Open Pass", "Yearly Pass"}
HourlyPlanInputs == {Null, "Hourly Pass", "Yearly Pass"}

\* The bodies {category, plan, phone} of the subscribe requests that name
\* one of `plans` and carry one of `phones`, and those of a well-formed
\* request for the hourly plan.
Requests(plans, phones) ==
    [category : CategoryInputs, plan : plans, phone : phones]

PayingRequests ==
    [category : {"gaming"}, plan : {"Hourly Pass"}, phone : {GoodPhone}]

\* Plan.findOne({category, plan}): the index of the plan, 0 when none.
FindPlan(category, planName) ==
    LET hits == {i \in 1..Len(PlanDocs) :
                   /\ PlanDocs[i].category = category
                   /\ PlanDocs[i].plan = planName} IN
    IF hits = {} THEN 0 ELSE CHOOSE i \in hits : \A j \in hits : i <= j

\* The _id of the i-th document and the i-th CheckoutRequestID of the
\* gateway; an _id is an ObjectId string, a CheckoutRequestID is not.
IdOf == <<"id1", "id2", "id3", "id4">>
CheckoutIdOf == <<"ws_CO_1", "ws_CO_2", "ws_CO_3", "ws_CO_4">>
IsObjectId(s) == \E i \in 1..Len(IdOf) : IdOf[i] = s

\* The two definitions of the subscriptionSchema: that of the file the
\* routes import (models/Subscription.js), and the later one, which has the
\* paths mpesaCheckoutId and mpesaTransactionDate, a startDate that is null
\* by default and a pre('save') hook that sets it (it follows the planSchema
\* in models/Plans.js).
OlderSchema == "Subscription.js"
NewerSchema == "Plans.js"
Schemas == {OlderSchema, NewerSchema}

\* The fields of a document that the model keeps, and those of them that are
\* paths of the schema s.  A document of the older schema never has the two
\* other fields: they stay null.
DocFields ==
    {"userId", "category", "plan", "amount", "status", "startDate",
     "endDate", "receiptNumber", "paidAmount", "phoneNumber",
     "mpesaCheckoutId", "mpesaTransactionDate", "failedReason", "createdAt"}

SchemaPaths(s) ==
    IF s = NewerSchema THEN DocFields
    ELSE DocFields \ {"mpesaCheckoutId", "mpesaTransactionDate"}

\* The document after the update, under the schema s: the fields of the
\* update that are paths of the schema are set (strict mode drops the
\* others), the other fields are kept.
ApplyUpdate(s, doc, update) ==
    [f \in DOMAIN doc |->
        IF f \in DOMAIN update \cap SchemaPaths(s) THEN update[f] ELSE doc[f]]

\* new Subscription({userId, category, plan, amount, endDate, status}) at
\* the time t, with the defaults of the schema s: createdAt is Date.now in
\* both, startDate is Date.now in the older and null in the newer.
NewSubscription(s, user, planIdx, endDate, t) ==
    [userId |-> user,
     category |-> PlanDocs[planIdx].category,
     plan |-> PlanDocs[planIdx].plan,
     amount |-> PlanDocs[planIdx].amount,
     status |-> "pending",
     startDate |-> IF s = NewerSchema THEN NoDate ELSE t,
     endDate |-> endDate,
     receiptNumber |-> Null,
     paidAmount |-> NoDate,
     phoneNumber |-> Null,
     mpesaCheckoutId |-> Null,
     mpesaTransactionDate |-> Null,
     failedReason |-> Null,
     createdAt |-> t]

\* HasActive that finds no document.
HasActive_Never(user, category, t) == FALSE

\* Subscription.findOne({userId, category, status: "active",
\*                       endDate: {$gt: new Date()}})
HasActive(user, category, t) ==
    \E i \in 1..Len(subs) :
        /\ subs[i].userId = user
        /\ subs[i].category = category
        /\ subs[i].status = "active"
        /\ subs[i].endDate > t

\* A time zone: local time is UTC plus `before` seconds up to the instant
\* `at`, where the clocks change, and UTC plus `after` seconds from then on.
\* Utc never changes its clocks; in the two others the clocks change an hour
\* and a half after the start, forward by an hour (New York in March) or
\* back by an hour (New York in November).
Utc == [at |-> 0, before |-> 0, after |-> 0]
ClocksForward == [at |-> 5400, before |-> -18000, after |-> -14400]
ClocksBack == [at |-> 5400, before |-> -14400, after |-> -18000]
Zones == {Utc, ClocksForward, ClocksBack}

Max(a, b) == IF a >= b THEN a ELSE b

\* LocalTime(t): the wall-clock time of the instant t, which getHours and
\* getDate read.
LocalTime(z, t) == t + (IF t < z.at THEN z.before ELSE z.after)

\* UTC(local): the instant of a wall-clock time, which setHours and setDate
\* store.  A wall-clock time that the change of clocks skips or repeats is
\* taken with the offset before the change.
UtcTime(z, local) ==
    local - (IF local < z.at + Max(z.before, z.after) THEN z.before
                                                       ELSE z.after)

\* date.setHours(date.getHours() + h) and date.setDate(date.getDate() + d):
\* the span is added to the wall-clock time of t.
AddLocal(z, t, span) == UtcTime(z, LocalTime(z, t) + span)

\* The endDate of subscribe: setHours / setDate on new Date(), in the time
\* zone z.
ComputeEndDate(z, planIdx, t) ==
    IF PlanDocs[planIdx].durationHours # 0
    THEN AddLocal(z, t, PlanDocs[planIdx].durationHours * Seconds(MsPerHour))
    ELSE IF PlanDocs[planIdx].durationDays # 0
    THEN AddLocal(z, t, PlanDocs[planIdx].durationDays * Seconds(MsPerDay))
    ELSE AddLocal(z, t, DefaultDurationDays * Seconds(MsPerDay))

\* A handler has sent its response: the slot keeps the status code until the
\* connection is closed.
Respond(p, code) ==
    [procs EXCEPT ![p].pc = "done", ![p].http = code, ![p].sent = 0]

\* ------------------------------------------------------- POST /subscribe
\* The subscribe requests that have not inserted their document yet.
Inserting ==
    {q \in Procs : procs[q].pc \in {"sub_check", "sub_checked", "sub_insert"}}

\* Validation and Plan.findOne; then the read of an active subscription is
\* sent, its filter built with `new Date()`.  The plans never change and no
\* state is read before that `new Date()`: the step is the handler resuming
\* from Plan.findOne.  (The model stops taking subscribe requests once
\* `cap` documents exist or are about to.)
SubscribeBegin(p, cap, requests) ==
    /\ procs[p].pc = "idle"
    /\ Len(subs) + Cardinality(Inserting) < cap
    /\ \E user \in Users, body \in requests :
         LET planIdx == FindPlan(body.category, body.plan) IN
         procs' =
            IF \/ ~Truthy(body.category)
               \/ ~Truthy(body.plan)
               \/ body.phone = <<>>
            THEN Respond(p, 400)
            ELSE IF planIdx = 0
            THEN Respond(p, 400)
            ELSE [procs EXCEPT ![p].kind = "subscribe", ![p].pc = "sub_check",
                               ![p].user = user, ![p].plan = planIdx,
                               ![p].phone = body.phone, ![p].t = now]
    /\ UNCHANGED <<now, ticks, sweeps, tokenCache, dbVars>>
    /\ NotCallback
    /\ UNCHANGED deployment

SubscribeStart(p) ==
    SubscribeBegin(p, MaxSubs, Requests(HourlyPlanInputs, PhoneInputs))

\* The database runs Subscription.findOne with the filter it was sent; a
\* document found is answered with 400.
SubscribeCheck(p) ==
    /\ procs[p].pc = "sub_check"
    /\ procs' =
         IF HasActive(procs[p].user, PlanDocs[procs[p].plan].category,
                      procs[p].t)
         THEN Respond(p, 400)
         ELSE [procs EXCEPT ![p].pc = "sub_checked"]
    /\ UNCHANGED <<now, ticks, sweeps, tokenCache, dbVars>>
    /\ NotCallback
    /\ UNCHANGED deployment

\* The handler resumes with no document found: endDate is computed from
\* `new Date()`, the document is built (createdAt: Date.now) and save() is
\* called.
SubscribeCreate(p) ==
    /\ procs[p].pc = "sub_checked"
    /\ procs' = [procs EXCEPT ![p].pc = "sub_insert", ![p].t = now]
    /\ UNCHANGED <<now, ticks, sweeps, tokenCache, dbVars>>
    /\ NotCallback
    /\ UNCHANGED deployment

\* The database inserts the pending document of subscription.save().
SubscribeInsert(p) ==
    /\ procs[p].pc = "sub_insert"
    /\ subs' = Append(subs, NewSubscription(schema, procs[p].user,
                                            procs[p].plan,
                                            ComputeEndDate(zone, procs[p].plan,
                                                           procs[p].t),
                                            procs[p].t))
    /\ procs' = [procs EXCEPT ![p].pc = "sub_saved", ![p].sub = Len(subs) + 1]
    /\ UNCHANGED <<now, ticks, sweeps, tokenCache, issued>>
    /\ NotCallback
    /\ UNCHANGED deployment

\* The handler resumes from save(): initiateStkPush asks for a token.
SubscribeSaved(p) ==
    /\ procs[p].pc = "sub_saved"
    /\ procs' = TokenEnter(p, "subscribe", DefaultRetries, procs)
    /\ UNCHANGED <<now, ticks, sweeps, tokenCache, dbVars>>
    /\ NotCallback
    /\ UNCHANGED deployment

\* The errors thrown inside the try block of initiateStkPush: a message,
\* and the response an axios error carries (err.response.data).
NoResponse == [present |-> FALSE, code |-> Null, desc |-> Null]
Thrown(message, response) == [message |-> message, response |-> response]

TokenError == Thrown("Failed to get M-Pesa access token", NoResponse)
PhoneError == Thrown("Invalid phone number format", NoResponse)

\* The functions every object literal inherits from Object.prototype.
InheritedFunctions ==
    {"constructor", "hasOwnProperty", "isPrototypeOf",
     "propertyIsEnumerable", "toLocaleString", "toString", "valueOf",
     "__defineGetter__", "__defineSetter__", "__lookupGetter__",
     "__lookupSetter__"}

\* String(Object.prototype[name]) of such a function: the constructor is
\* the function Object, the others are named as their property.
FunctionText(name) ==
    "function " \o (IF name = "constructor" THEN "Object" ELSE name)
      \o "() { [native code] }"

\* errorMap[code] as the message of an Error: the sentence of a known code;
\* for a code that names a property the object literal inherits, the text of
\* that function, or of Object.prototype itself; Null otherwise (undefined).
ErrorMap(code) ==
    CASE code = "1032" -> "Payment was cancelled by user"
      [] code = "1037" ->
           "Unable to reach your phone. Please ensure it's connected and try again"
      [] code = "1" -> "Insufficient balance in your M-Pesa account"
      [] code = "1031" -> "Request cancelled by user"
      [] code = "1033" -> "Transaction timed out"
      [] code = "1036" ->
           "Transaction request in progress. Please try again later"
      [] code \in InheritedFunctions -> FunctionText(code)
      [] code = "__proto__" -> "[object Object]"
      [] OTHER -> Null

\* The catch block of initiateStkPush: the message of the error it throws,
\* errorMap[code] || ResponseDescription || "Payment initiation failed".
UserFriendlyMessage(err) ==
    IF err.response.present
    THEN IF ErrorMap(err.response.code) # Null
         THEN ErrorMap(err.response.code)
         ELSE IF Truthy(err.response.desc)
         THEN err.response.desc
         ELSE "Payment initiation failed"
    ELSE "Payment initiation failed"

\* err.message.includes(fragment): the fragment occurs in the message.
Includes(message, fragment) ==
    \E i \in 1..(Len(message) - Len(fragment) + 1) :
        SubSeq(message, i, i + Len(fragment) - 1) = fragment

\* The catch block of the subscribe route: the status code for a message.
RouteStatus(message) ==
    IF Includes(message, "Invalid phone number") THEN 400
    ELSE IF Includes(message, "M-Pesa credentials") THEN 503
    ELSE 500

\* initiateStkPush throws for err; the route answers with the status code
\* and the message.
RespondError(p, err) ==
    LET m == UserFriendlyMessage(err) IN
    [procs EXCEPT ![p].pc = "done", ![p].http = RouteStatus(m),
                  ![p].msg = IF RouteStatus(m) = 503
                             THEN "Payment service temporarily unavailable"
                             ELSE m,
                  ![p].sent = 0]

\* initiateStkPush after the token: a token failure or a phone number that
\* formatPhoneNumber rejects ends in the two catch blocks, otherwise the
\* push is submitted.
PushSend(p) ==
    /\ procs[p].pc = "tok_ret"
    /\ procs[p].kind = "subscribe"
    /\ procs' =
         IF procs[p].res = Null
         THEN RespondError(p, TokenError)
         ELSE IF ~FormatPhoneNumber(procs[p].phone).ok
         THEN RespondError(p, PhoneError)
         ELSE [procs EXCEPT ![p].pc = "push_wait", ![p].sent = 0,
                            ![p].formatted =
                                FormatPhoneNumber(procs[p].phone).value,
                            ![p].reqs = @ + 1]
    /\ UNCHANGED <<now, ticks, sweeps, tokenCache, dbVars>>
    /\ NotCallback
    /\ UNCHANGED deployment

\* The gateway accepts the push (ResponseCode "0") and issues a
\* CheckoutRequestID; the route sets subscription.mpesaCheckoutId and calls
\* save().
PushAccepted(p) ==
    /\ procs[p].pc = "push_wait"
    /\ issued < Len(CheckoutIdOf)
    /\ issued' = issued + 1
    /\ procs' = [procs EXCEPT ![p].pc = "sub_savecid",
                              ![p].cid = CheckoutIdOf[issued + 1]]
    /\ UNCHANGED <<now, ticks, sweeps, tokenCache, subs>>
    /\ NotCallback
    /\ UNCHANGED deployment

\* Why a push fails: the gateway rejects the access token (an answer without
\* ResponseCode), it rejects the request (a ResponseCode other than "0",
\* known to the errorMap or not), it answers with a 5xx status, or the
\* request gets no answer.  The description of a 5xx answer with an unknown
\* code becomes the message the route tests: it may hold one of the
\* fragments the route looks for.
PushFailures ==
    {"auth", "rejected", "rejected_unknown", "server_error", "network",
     "server_error_phone", "server_error_credentials"}

\* The answer of the gateway in each case: the status (0: none) and the
\* ResponseCode and ResponseDescription of the body.
PushAnswer(why) ==
    CASE why = "auth" -> [http |-> 404, code |-> Null, desc |-> Null]
      [] why = "rejected" ->
           [http |-> 200, code |-> "1032",
            desc |-> "Request cancelled by user"]
      [] why = "rejected_unknown" ->
           [http |-> 400, code |-> "9999", desc |-> "Merchant not allowed"]
      [] why = "server_error" ->
           [http |-> 500, code |-> "1037", desc |-> "DS timeout"]
      [] why = "network" -> [http |-> 0, code |-> Null, desc |-> Null]
      [] why = "server_error_phone" ->
           [http |-> 500, code |-> "9999",
            desc |-> "Invalid phone number supplied"]
      [] why = "server_error_credentials" ->
           [http |-> 500, code |-> "9999",
            desc |-> "M-Pesa credentials rejected"]

\* What the try block throws on that answer: the error of axios for no
\* answer and for a status of 500 and more (validateStatus), which carries
\* the response; the Error of line 189 for the other answers, which does not.
PushError(answer) ==
    IF answer.http = 0
    THEN Thrown("Network Error", NoResponse)
    ELSE IF answer.http >= 500
    THEN Thrown("Request failed",
                [present |-> TRUE, code |-> answer.code, desc |-> answer.desc])
    ELSE Thrown("M-Pesa API error", NoResponse)

\* PushReject submitting the push again after a failure.
PushReject_Resubmit(p, why) ==
    /\ procs[p].pc = "push_wait"
    /\ why \in PushFailures
    /\ procs' = [procs EXCEPT ![p].pc = "tok_ret"]
    /\ UNCHANGED <<now, ticks, sweeps, tokenCache, dbVars>>
    /\ NotCallback
    /\ UNCHANGED deployment

\* The push of p fails for the reason why: initiateStkPush throws, the route
\* answers with the status and the message of its catch block.
PushReject(p, why) ==
    /\ procs[p].pc = "push_wait"
    /\ why \in PushFailures
    /\ procs' = RespondError(p, PushError(PushAnswer(why)))
    /\ UNCHANGED <<now, ticks, sweeps, tokenCache, dbVars>>
    /\ NotCallback
    /\ UNCHANGED deployment

PushFailed(p) == \E why \in PushFailures : PushReject(p, why)

\* SubscribeSaveCid writing the id on every document of the collection.
SubscribeSaveCid_AllDocs(p) ==
    /\ procs[p].pc = "sub_savecid"
    /\ subs' = [i \in 1..Len(subs) |->
                   ApplyUpdate(schema, subs[i],
                               [mpesaCheckoutId |-> procs[p].cid])]
    /\ procs' = Respond(p, 201)
    /\ UNCHANGED <<now, ticks, sweeps, tokenCache, issued>>
    /\ NotCallback
    /\ UNCHANGED deployment

\* The second save() writes mpesaCheckoutId, when the schema has that path:
\* on a document of the older schema the assignment of line 140 sets no
\* path and save() stores nothing.
SubscribeSaveCid(p) ==
    /\ procs[p].pc = "sub_savecid"
    /\ subs' = [subs EXCEPT ![procs[p].sub] =
                   ApplyUpdate(schema, @, [mpesaCheckoutId |-> procs[p].cid])]
    /\ procs' = Respond(p, 201)
    /\ UNCHANGED <<now, ticks, sweeps, tokenCache, issued>>
    /\ NotCallback
    /\ UNCHANGED deployment

\* The connection of an answered request is closed.
Close(p) ==
    /\ procs[p].pc = "done"
    /\ procs' = [procs EXCEPT ![p] = IdleProc]
    /\ UNCHANGED <<now, ticks, sweeps, tokenCache, dbVars>>
    /\ NotCallback
    /\ UNCHANGED deployment

\* --------------------------------------------------- POST /mpesa/callback
\* parseInt(ResultCode) of a string of characters: leading white space is
\* skipped, a sign is taken, a 0x or 0X prefix makes the radix 16, and the
\* value is that of the longest run of digits of the radix that follows; NaN
\* when there is none.  (parseInt("-0") is -0, and -0 === 0.)  A character
\* outside printable ASCII is written by its code point, "U+00A0".
\* White space is what String.prototype.trim removes: TAB, LF, VT, FF, CR,
\* SP, NBSP, the byte order mark, the line and paragraph separators and the
\* space separators of Unicode.
WhiteSpace ==
    {" ", "\t", "\n", "\r", "\f", "U+0009", "U+000A", "U+000B", "U+000C",
     "U+000D", "U+0020", "U+00A0", "U+FEFF", "U+2028", "U+2029", "U+1680",
     "U+2000", "U+2001", "U+2002", "U+2003", "U+2004", "U+2005", "U+2006",
     "U+2007", "U+2008", "U+2009", "U+200A", "U+202F", "U+205F", "U+3000"}

HexDigits ==
    Digits \cup {"a", "b", "c", "d", "e", "f", "A", "B", "C", "D", "E", "F"}

DigitValue(c) ==
    CASE c = "0" -> 0 [] c = "1" -> 1 [] c = "2" -> 2 [] c = "3" -> 3
      [] c = "4" -> 4 [] c = "5" -> 5 [] c = "6" -> 6 [] c = "7" -> 7
      [] c = "8" -> 8 [] c = "9" -> 9
      [] c \in {"a", "A"} -> 10 [] c \in {"b", "B"} -> 11
      [] c \in {"c", "C"} -> 12 [] c \in {"d", "D"} -> 13
      [] c \in {"e", "E"} -> 14 [] c \in {"f", "F"} -> 15

\* The results of parseInt: a number, or NaN, which equals no number.
Num(v) == [nan |-> FALSE, value |-> v]
NaN == [nan |-> TRUE, value |-> 0]

IsRadixDigit(c, radix) ==
    IF radix = 16 THEN c \in HexDigits ELSE c \in Digits

RECURSIVE SkipWhiteSpace(_)
SkipWhiteSpace(s) ==
    IF s # <<>> /\ s[1] \in WhiteSpace THEN SkipWhiteSpace(Tail(s)) ELSE s

RECURSIVE ParseDigits(_, _, _, _)
ParseDigits(s, i, radix, acc) ==
    IF i > Len(s) \/ ~IsRadixDigit(s[i], radix)
    THEN acc
    ELSE ParseDigits(s, i + 1, radix, acc * radix + DigitValue(s[i]))

ParseInt(str) ==
    LET trimmed == SkipWhiteSpace(str)
        signed == trimmed # <<>> /\ trimmed[1] \in {"+", "-"}
        sign == IF signed /\ trimmed[1] = "-" THEN -1 ELSE 1
        unsigned == IF signed THEN Tail(trimmed) ELSE trimmed
        hex == \/ StartsWith(unsigned, <<"0", "x">>)
               \/ StartsWith(unsigned, <<"0", "X">>)
        radix == IF hex THEN 16 ELSE 10
        body == IF hex THEN Tail(Tail(unsigned)) ELSE unsigned
    IN
    IF body = <<>> \/ ~IsRadixDigit(body[1], radix)
    THEN NaN
    ELSE Num(sign * ParseDigits(body, 1, radix, 0))

\* What a notification may carry.  An absent item is Null / NoDate.
ResultDescInputs == {"Request cancelled by user"}
PayerInputs == {Null, "254712345678"}

\* The correlation ids a notification may name: those the gateway has
\* issued, the _id of a stored document, an ObjectId of no document, an
\* unknown id of the gateway's kind, or none.
CidInputs ==
    {Null, "", "ws_CO_unknown"}
      \cup {CheckoutIdOf[i] : i \in 1..issued}
      \cup {IdOf[i] : i \in 1..(Len(subs) + 1)}

Notification(valid, cid, rc, desc, receipt, amount, acctRef, phone, date) ==
    [valid |-> valid, cid |-> cid, rc |-> rc, desc |-> desc,
     receipt |-> receipt, amount |-> amount, acctRef |-> acctRef,
     phone |-> phone, date |-> date]

\* A body without Body.stkCallback.
MalformedBody ==
    Notification(FALSE, Null, <<>>, Null, Null, NoDate, FALSE, Null, Null)

\* The notifications of a failed payment carry no CallbackMetadata.
FailureNotifications ==
    {Notification(TRUE, cid, <<"1", "0", "3", "2">>, desc, Null, NoDate, FALSE,
                  Null, Null) :
        cid \in CidInputs, desc \in ResultDescInputs}

\* The notifications of a successful payment: with all the items, or with
\* the receipt number, the amount or the account reference missing.
SuccessNotifications ==
    {Notification(TRUE, cid, <<"0">>, "ok", m[1], m[2], m[3], phone,
                  "20250101120000") :
        cid \in CidInputs, phone \in PayerInputs,
        m \in {<<"ABC123", 100, TRUE>>, <<Null, 100, TRUE>>,
                <<"ABC123", NoDate, TRUE>>, <<"ABC123", 100, FALSE>>}}

Notifications ==
    {MalformedBody} \cup FailureNotifications \cup SuccessNotifications

\* MissingMetadata without the test of the account reference.
MissingMetadata_NoAccountRef(n) ==
    n.receipt = Null \/ n.amount = NoDate

\* if (!receiptItem || !amountItem || !accountRefItem)
MissingMetadata(n) ==
    n.receipt = Null \/ n.amount = NoDate \/ ~n.acctRef

\* SubscriptionUpdate without the failure reason in the failure update.
SubscriptionUpdate_NoReason(n, t) ==
    IF ParseInt(n.rc) = Num(0)
    THEN [status |-> "active",
          receiptNumber |-> n.receipt,
          paidAmount |-> n.amount,
          phoneNumber |-> n.phone,
          mpesaTransactionDate |-> n.date,
          startDate |-> t]
    ELSE [status |-> "failed"]

\* SubscriptionUpdate without the receipt number in the success update.
SubscriptionUpdate_NoReceipt(n, t) ==
    IF ParseInt(n.rc) = Num(0)
    THEN [status |-> "active",
          paidAmount |-> n.amount,
          phoneNumber |-> n.phone,
          mpesaTransactionDate |-> n.date,
          startDate |-> t]
    ELSE [status |-> "failed",
          failedReason |-> n.desc]

\* The subscriptionUpdate object of the handler.
SubscriptionUpdate(n, t) ==
    IF ParseInt(n.rc) = Num(0)
    THEN [status |-> "active",
          receiptNumber |-> n.receipt,
          paidAmount |-> n.amount,
          phoneNumber |-> n.phone,
          mpesaTransactionDate |-> n.date,
          startDate |-> t]
    ELSE [status |-> "failed",
          failedReason |-> n.desc]

\* findOne by a filter on mpesaCheckoutId: the first document in the
\* collection's order, 0 when none.
FindByCheckoutId(cid) ==
    LET hits == {i \in 1..Len(subs) : subs[i].mpesaCheckoutId = cid} IN
    IF hits = {} THEN 0 ELSE CHOOSE i \in hits : \A j \in hits : i <= j

\* FindById that settles for the first document when none has that _id.
FindById_Any(id) ==
    LET hits == {i \in 1..Len(subs) : IdOf[i] = id} IN
    IF hits # {} THEN CHOOSE i \in hits : TRUE
    ELSE IF subs # <<>> THEN 1 ELSE 0

\* findById: the document with that _id, 0 when none.
FindById(id) ==
    LET hits == {i \in 1..Len(subs) : IdOf[i] = id} IN
    IF hits = {} THEN 0 ELSE CHOOSE i \in hits : TRUE

\* The document a correlation id designates: by mpesaCheckoutId, else by _id.
Designated(cid) ==
    IF ~Truthy(cid) THEN 0
    ELSE IF FindByCheckoutId(cid) # 0 THEN FindByCheckoutId(cid)
    ELSE IF IsObjectId(cid) THEN FindById(cid)
    ELSE 0

\* The answer res.status(http).json({ResultCode: code, ...}), the branch of
\* the handler that gave it and the document the correlation id designates.
CbResult(branch, http, code, sub) ==
    [branch |-> branch, http |-> http, code |-> code, sub |-> sub]

\* The notifications with all their items, of a failure or of a success,
\* that name one of the correlation ids `cids`.
CompleteOf(cids) ==
    {Notification(TRUE, cid, <<"1", "0", "3", "2">>, desc, Null, NoDate, FALSE,
                  Null, Null) :
        cid \in cids, desc \in ResultDescInputs}
      \cup
    {Notification(TRUE, cid, <<"0">>, "ok", "ABC123", 100, TRUE, phone,
                  "20250101120000") :
        cid \in cids, phone \in PayerInputs \ {Null}}

\* Those notifications, whatever correlation id they name.
CompleteNotifications == CompleteOf(CidInputs)

\* Those of the pushes the gateway has accepted.  The gateway delivers at
\* least once: a notification may come again, whatever has become of the
\* document since, and both outcomes may come for one push.
PushNotifications == CompleteOf({CheckoutIdOf[i] : i \in 1..issued})

\* Those that name a push the gateway has accepted or the _id of a stored
\* document, delivered as often and as late.
KnownNotifications ==
    CompleteOf({CheckoutIdOf[i] : i \in 1..issued}
                 \cup {IdOf[i] : i \in 1..Len(subs)})

\* The invocations of the webhook handler that may be in flight together.
\* Express takes up a request while another awaits the database; each
\* invocation in flight holds the notification (n), the time its update
\* object was built (t) and the lookup it awaits (pc).
Webhooks == 1..MaxWebhooks

IdleCb == [pc |-> "idle", n |-> MalformedBody, t |-> NoDate]

\* The invocations not in use, among the first `cap`.
FreeWebhooks(cap) == {w \in 1..cap : cb[w].pc = "idle"}

\* The synchronous head of the handler on notification n: the body is
\* validated and the update object built, with `new Date()` for startDate;
\* findOneAndUpdate by mpesaCheckoutId is sent when there is a
\* CheckoutRequestID.  Without one neither lookup is made.  At most `cap`
\* requests to the webhook are handled together.
CallbackBegin(n, cap) ==
    /\ FreeWebhooks(cap) # {}
    /\ IF ~n.valid
       THEN /\ lastCb' = CbResult("invalid_format", 400, 1, Designated(n.cid))
            /\ UNCHANGED cb
       ELSE IF ParseInt(n.rc) = Num(0) /\ MissingMetadata(n)
       THEN /\ lastCb' = CbResult("missing_metadata", 400, 1,
                                  Designated(n.cid))
            /\ UNCHANGED cb
       ELSE IF ~Truthy(n.cid)
       THEN /\ lastCb' = CbResult("not_found", 200, 0, 0)
            /\ UNCHANGED cb
       ELSE /\ LET w == CHOOSE v \in FreeWebhooks(cap) :
                            \A u \in FreeWebhooks(cap) : v <= u
               IN cb' = [cb EXCEPT ![w] = [pc |-> "first", n |-> n, t |-> now]]
            /\ lastCb' = NoCb
    /\ UNCHANGED <<now, ticks, sweeps, tokenCache, procs, subs, issued,
                   deployment>>

\* The gateway delivers one of the notifications ns.
Deliver(ns, cap) == \E n \in ns : CallbackBegin(n, cap)

Callback == Deliver(Notifications, OneWebhook)

\* CallbackFirst with updateMany on the documents still pending in place of
\* findOneAndUpdate on the document found.
CallbackFirst_UpdateMany(w) ==
    /\ cb[w].pc = "first"
    /\ LET i == FindByCheckoutId(cb[w].n.cid)
           update == SubscriptionUpdate(cb[w].n, cb[w].t)
       IN
       IF i # 0
       THEN /\ subs' = [j \in 1..Len(subs) |->
                          IF subs[j].status = "pending"
                          THEN ApplyUpdate(schema, subs[j], update) ELSE subs[j]]
            /\ lastCb' = CbResult("updated", 200, 0, Designated(cb[w].n.cid))
            /\ cb' = [cb EXCEPT ![w] = IdleCb]
       ELSE IF ~IsObjectId(cb[w].n.cid)
       THEN /\ lastCb' = CbResult("error", 200, 0, Designated(cb[w].n.cid))
            /\ cb' = [cb EXCEPT ![w] = IdleCb]
            /\ UNCHANGED subs
       ELSE /\ cb' = [cb EXCEPT ![w].pc = "second"]
            /\ lastCb' = NoCb
            /\ UNCHANGED subs
    /\ UNCHANGED <<now, ticks, sweeps, tokenCache, procs, issued, deployment>>

\* CallbackFirst with the lookups in the other order: by _id first.
CallbackFirst_IdFirst(w) ==
    /\ cb[w].pc = "first"
    /\ LET byId == IF IsObjectId(cb[w].n.cid) THEN FindById(cb[w].n.cid) ELSE 0
           byCid == FindByCheckoutId(cb[w].n.cid)
           update == SubscriptionUpdate(cb[w].n, cb[w].t)
       IN
       IF byId # 0
       THEN /\ subs' = [subs EXCEPT ![byId] = ApplyUpdate(schema, @, update)]
            /\ lastCb' = CbResult("updated_by_id", 200, 0,
                                  Designated(cb[w].n.cid))
            /\ cb' = [cb EXCEPT ![w] = IdleCb]
       ELSE IF byCid # 0
       THEN /\ subs' = [subs EXCEPT ![byCid] = ApplyUpdate(schema, @, update)]
            /\ lastCb' = CbResult("updated", 200, 0, Designated(cb[w].n.cid))
            /\ cb' = [cb EXCEPT ![w] = IdleCb]
       ELSE IF ~IsObjectId(cb[w].n.cid)
       THEN /\ lastCb' = CbResult("error", 200, 0, Designated(cb[w].n.cid))
            /\ cb' = [cb EXCEPT ![w] = IdleCb]
            /\ UNCHANGED subs
       ELSE /\ cb' = [cb EXCEPT ![w].pc = "second"]
            /\ lastCb' = NoCb
            /\ UNCHANGED subs
    /\ UNCHANGED <<now, ticks, sweeps, tokenCache, procs, issued, deployment>>

\* The database runs findOneAndUpdate({mpesaCheckoutId: CheckoutRequestID})
\* and the handler resumes: a document found is updated and the notification
\* acknowledged; otherwise findByIdAndUpdate is sent, which throws a
\* CastError, caught by the handler, for an id that is no ObjectId.
CallbackFirst(w) ==
    /\ cb[w].pc = "first"
    /\ LET i == FindByCheckoutId(cb[w].n.cid)
           update == SubscriptionUpdate(cb[w].n, cb[w].t)
       IN
       IF i # 0
       THEN /\ subs' = [subs EXCEPT ![i] = ApplyUpdate(schema, @, update)]
            /\ lastCb' = CbResult("updated", 200, 0, Designated(cb[w].n.cid))
            /\ cb' = [cb EXCEPT ![w] = IdleCb]
       ELSE IF ~IsObjectId(cb[w].n.cid)
       THEN /\ lastCb' = CbResult("error", 200, 0, Designated(cb[w].n.cid))
            /\ cb' = [cb EXCEPT ![w] = IdleCb]
            /\ UNCHANGED subs
       ELSE /\ cb' = [cb EXCEPT ![w].pc = "second"]
            /\ lastCb' = NoCb
            /\ UNCHANGED subs
    /\ UNCHANGED <<now, ticks, sweeps, tokenCache, procs, issued, deployment>>

\* The database runs findByIdAndUpdate(CheckoutRequestID) and the handler
\* resumes: the notification is acknowledged, a document found or not.
CallbackSecond(w) ==
    /\ cb[w].pc = "second"
    /\ LET i == FindById(cb[w].n.cid)
           update == SubscriptionUpdate(cb[w].n, cb[w].t)
       IN
       IF i # 0
       THEN /\ subs' = [subs EXCEPT ![i] = ApplyUpdate(schema, @, update)]
            /\ lastCb' = CbResult("updated_by_id", 200, 0,
                                  Designated(cb[w].n.cid))
       ELSE /\ lastCb' = CbResult("not_found", 200, 0, Designated(cb[w].n.cid))
            /\ UNCHANGED subs
    /\ cb' = [cb EXCEPT ![w] = IdleCb]
    /\ UNCHANGED <<now, ticks, sweeps, tokenCache, procs, issued, deployment>>

\* --------------------------------------------------------- GET /:id/status
\* The ids of the requests: that of a stored document, an ObjectId of no
\* document, a string that is no ObjectId.
StatusIdInputs == {IdOf[i] : i \in 1..(Len(subs) + 1)} \cup {"abc"}

\* ShouldQuery without the test of the checkout id.
ShouldQuery_AnyPending(doc) == doc.status = "pending"

\* if (subscription.status === "pending" && subscription.mpesaCheckoutId)
ShouldQuery(doc) == doc.status = "pending" /\ Truthy(doc.mpesaCheckoutId)

\* The database runs Subscription.findOne({_id: id, userId}).  An id that is
\* no ObjectId makes the query throw a CastError, which the outer catch
\* answers with 500; no document is answered with 404; a document that needs
\* no query is answered with its status; otherwise the handler holds its
\* copy of the document.
StatusRead(p) ==
    /\ procs[p].pc = "idle"
    /\ \E id \in StatusIdInputs, user \in Users :
         LET i == FindById(id) IN
         procs' =
            IF ~IsObjectId(id)
            THEN [Respond(p, 500) EXCEPT ![p].msg = "Failed to check status"]
            ELSE IF i = 0 \/ subs[i].userId # user
            THEN Respond(p, 404)
            ELSE IF ShouldQuery(subs[i])
            THEN [procs EXCEPT ![p].kind = "status", ![p].pc = "st_found",
                               ![p].user = user, ![p].sub = i,
                               ![p].cid = subs[i].mpesaCheckoutId,
                               ![p].snap = subs[i].startDate]
            ELSE [procs EXCEPT ![p].pc = "done", ![p].http = 200,
                               ![p].res = subs[i].status]
    /\ UNCHANGED <<now, ticks, sweeps, tokenCache, dbVars>>
    /\ NotCallback
    /\ UNCHANGED deployment

\* The handler resumes with its copy, pending with a checkout id:
\* queryTransactionStatus asks for a token.
StatusQuery(p) ==
    /\ procs[p].pc = "st_found"
    /\ procs' = TokenEnter(p, "status", DefaultRetries, procs)
    /\ UNCHANGED <<now, ticks, sweeps, tokenCache, dbVars>>
    /\ NotCallback
    /\ UNCHANGED deployment

\* queryTransactionStatus after the token: a token failure is caught by the
\* route, which answers with the status it read.
QuerySend(p) ==
    /\ procs[p].pc = "tok_ret"
    /\ procs[p].kind = "status"
    /\ procs' =
         IF procs[p].res = Null
         THEN [procs EXCEPT ![p].pc = "done", ![p].http = 200,
                            ![p].res = "pending", ![p].sent = 0]
         ELSE [procs EXCEPT ![p].pc = "query_wait", ![p].sent = 0,
                            ![p].reqs = @ + 1]
    /\ UNCHANGED <<now, ticks, sweeps, tokenCache, dbVars>>
    /\ NotCallback
    /\ UNCHANGED deployment

\* The ResultCode of the answer to a query; an answer that rejects the
\* access token ({errorCode, errorMessage}) has none.
QueryCodeInputs == {"0", "1032", Null}

\* save() of a document whose status was set to active; the pre('save')
\* hook of the newer schema adds startDate when the document read has none
\* (that of the older schema sets updatedAt only).
SaveActive(s, doc, readStart, t) ==
    [doc EXCEPT !.status = "active",
                !.startDate = IF s = NewerSchema /\ readStart = NoDate
                              THEN t ELSE doc.startDate]

\* The gateway answers the query of p with ResultCode rc; on "0" the route
\* sets the status of the document it read to active and calls save().
QueryReply(p, rc) ==
    /\ procs[p].pc = "query_wait"
    /\ procs' =
          IF rc = "0"
          THEN [procs EXCEPT ![p].pc = "st_save", ![p].t = now]
          ELSE [procs EXCEPT ![p].pc = "done", ![p].http = 200,
                             ![p].res = "pending"]
    /\ UNCHANGED <<now, ticks, sweeps, tokenCache, dbVars>>
    /\ NotCallback
    /\ UNCHANGED deployment

QueryAnswer(p) == \E rc \in QueryCodeInputs : QueryReply(p, rc)

\* The query request fails: caught, the stored status is answered.
QueryFailed(p) ==
    /\ procs[p].pc = "query_wait"
    /\ procs' = [procs EXCEPT ![p].pc = "done", ![p].http = 200,
                              ![p].res = "pending"]
    /\ UNCHANGED <<now, ticks, sweeps, tokenCache, dbVars>>
    /\ NotCallback
    /\ UNCHANGED deployment

\* save() writes the modified paths of the document read by StatusRead.
StatusSave(p) ==
    /\ procs[p].pc = "st_save"
    /\ subs' = [subs EXCEPT ![procs[p].sub] =
                   SaveActive(schema, @, procs[p].snap, procs[p].t)]
    /\ procs' = [procs EXCEPT ![p].pc = "done", ![p].http = 200,
                              ![p].res = "active"]
    /\ UNCHANGED <<now, ticks, sweeps, tokenCache, issued>>
    /\ NotCallback
    /\ UNCHANGED deployment

\* ------------------------------------------------ checkExpiredSubscriptions
\* Expirable without the test of the status.
Expirable_AnyStatus(doc, t) == doc.endDate <= t

\* Expirable with $lt in place of $lte.
Expirable_Strict(doc, t) == doc.status = "active" /\ doc.endDate < t

\* Expirable that takes the unpaid documents too.
Expirable_Unpaid(doc, t) ==
    doc.status \in {"active", "pending"} /\ doc.endDate <= t

\* {status: "active", endDate: {$lte: now}}
Expirable(doc, t) == doc.status = "active" /\ doc.endDate <= t

\* The run document by document.  updateMany is not one atomic write: it
\* applies the filter and the $set to one document at a time, and other
\* writers interleave between two documents.  A run holds its `now` (t), the
\* position of its scan (next), the documents it has modified (moved) and
\* its modifiedCount so far (count).
IdleSweep ==
    [pc |-> "idle", t |-> NoDate, next |-> 0, count |-> 0, moved |-> {}]

\* const now = new Date(); the updateMany is sent.
SweepStart(r) ==
    /\ sweeps[r].pc = "idle"
    /\ sweeps' = [sweeps EXCEPT ![r] = [pc |-> "run", t |-> now, next |-> 1,
                                        count |-> 0, moved |-> {}]]
    /\ UNCHANGED <<now, ticks, tokenCache, procs, dbVars>>
    /\ NotCallback
    /\ UNCHANGED deployment

\* updateMany on its next document: the filter is tested and the document
\* that matches is set to expired and counted.
SweepStep(r) ==
    /\ sweeps[r].pc = "run"
    /\ sweeps[r].next <= Len(subs)
    /\ LET i == sweeps[r].next
           hit == Expirable(subs[i], sweeps[r].t) IN
       /\ subs' = IF hit THEN [subs EXCEPT ![i].status = "expired"] ELSE subs
       /\ sweeps' = [sweeps EXCEPT ![r].next = i + 1,
                                   ![r].count = IF hit THEN @ + 1 ELSE @,
                                   ![r].moved = IF hit THEN @ \cup {i} ELSE @]
    /\ UNCHANGED <<now, ticks, tokenCache, procs, issued>>
    /\ NotCallback
    /\ UNCHANGED deployment

\* The scan is over: return result.modifiedCount.
SweepEnd(r) ==
    /\ sweeps[r].pc = "run"
    /\ sweeps[r].next > Len(subs)
    /\ sweeps' = [sweeps EXCEPT ![r].pc = "done"]
    /\ UNCHANGED <<now, ticks, tokenCache, procs, dbVars>>
    /\ NotCallback
    /\ UNCHANGED deployment

\* The scheduler fires again: a run that has ended is followed by the next.
SweepAgain(r) ==
    /\ sweeps[r].pc = "done"
    /\ sweeps' = [sweeps EXCEPT ![r] = IdleSweep]
    /\ UNCHANGED <<now, ticks, tokenCache, procs, dbVars>>
    /\ NotCallback
    /\ UNCHANGED deployment

\* ------------------------------------------------------------------ clock
\* Time passes: by seconds where token lifetimes are at stake, by hours
\* where the end dates of subscriptions are.
AdvanceBy(d, bound) ==
    /\ ticks < bound
    /\ now' = now + d
    /\ ticks' = ticks + 1
    /\ UNCHANGED <<tokenCache, procs, sweeps, dbVars>>
    /\ NotCallback
    /\ UNCHANGED deployment

Tick == AdvanceBy(Seconds(TickMs), MaxTicks)

Advance == AdvanceBy(Seconds(MsPerHour), MaxHours)

AdvanceSweep == AdvanceBy(Seconds(MsPerHour), MaxSweepHours)

\* ---------------------------------------------------------- specifications
\* The server has started, with the Subscription model compiled from either
\* schema, in one of the time zones `zones`.
InitIn(zones) ==
    /\ now = 0
    /\ ticks = 0
    /\ tokenCache = [token |-> Null, expiresAt |-> NoDate]
    /\ procs = [p \in Procs |-> IdleProc]
    /\ subs = <<>>
    /\ issued = 0
    /\ sweeps = [r \in Sweepers |-> IdleSweep]
    /\ cb = [w \in Webhooks |-> IdleCb]
    /\ lastCb = NoCb
    /\ schema \in Schemas
    /\ zone \in zones

Init == InitIn({Utc})

NextToken ==
    \/ Tick
    \/ \E p \in Procs : GetTokenCall(p)
    \/ \E p \in Procs : TokenGranted(p, Tokens, Lifetimes)
    \/ \E p \in Procs : TokenFailed(p, TokenFailures)
    \/ \E p \in Procs : TokenRetry(p)
    \/ \E p \in Procs : GetTokenReturn(p)

SpecToken == Init /\ [][NextToken]_vars

\* The token cache against a gateway whose every answer is a transient
\* failure.  The request has a timeout of 10 s and the delay is a timer of
\* 2 s: an exchange in flight is answered, a delay ends, a result returns.
TransientFailures == {"error_field", "no_token", "http5xx", "network"}

NextTokenFailing ==
    \/ \E p \in Procs : GetTokenCall(p)
    \/ \E p \in Procs : TokenFailed(p, TransientFailures)
    \/ \E p \in Procs : TokenRetry(p)
    \/ \E p \in Procs : GetTokenReturn(p)

SpecTokenFailing ==
    /\ Init
    /\ [][NextTokenFailing]_vars
    /\ \A p \in Procs : WF_vars(TokenFailed(p, TransientFailures))
    /\ \A p \in Procs : WF_vars(TokenRetry(p))
    /\ \A p \in Procs : WF_vars(GetTokenReturn(p))

\* The handlers of the routes and the webhook.
Handlers == {"h1"}

Next ==
    \/ Advance
    \/ \E p \in Handlers : SubscribeStart(p)
    \/ \E p \in Handlers : SubscribeCheck(p)
    \/ \E p \in Handlers : SubscribeCreate(p)
    \/ \E p \in Handlers : SubscribeInsert(p)
    \/ \E p \in Handlers : SubscribeSaved(p)
    \/ \E p \in Handlers : TokenGranted(p, {"tokA"}, {0})
    \/ \E p \in Handlers : TokenFailed(p, {"timeout"})
    \/ \E p \in Handlers : PushSend(p)
    \/ \E p \in Handlers : PushAccepted(p)
    \/ \E p \in Handlers : PushFailed(p)
    \/ \E p \in Handlers : SubscribeSaveCid(p)
    \/ \E p \in Handlers : StatusRead(p)
    \/ \E p \in Handlers : StatusQuery(p)
    \/ \E p \in Handlers : QuerySend(p)
    \/ \E p \in Handlers : QueryAnswer(p)
    \/ \E p \in Handlers : QueryFailed(p)
    \/ \E p \in Handlers : StatusSave(p)
    \/ \E p \in Handlers : Close(p)
    \/ Callback
    \/ \E w \in Webhooks : CallbackFirst(w)
    \/ \E w \in Webhooks : CallbackSecond(w)

Spec == Init /\ [][Next]_vars

\* The same handlers beside the scheduled sweep: requests are made, pushes
\* are accepted or fail, the status is checked, the gateway delivers the
\* notifications of the pushes and of the documents at least once, an hour
\* passes and the sweep runs again and again, document by document.
NextOrphan ==
    \/ Advance
    \/ \E p \in Handlers : SubscribeStart(p)
    \/ \E p \in Handlers : SubscribeCheck(p)
    \/ \E p \in Handlers : SubscribeCreate(p)
    \/ \E p \in Handlers : SubscribeInsert(p)
    \/ \E p \in Handlers : SubscribeSaved(p)
    \/ \E p \in Handlers : TokenGranted(p, {"tokA"}, {0})
    \/ \E p \in Handlers : TokenFailed(p, {"timeout"})
    \/ \E p \in Handlers : PushSend(p)
    \/ \E p \in Handlers : PushAccepted(p)
    \/ \E p \in Handlers : PushFailed(p)
    \/ \E p \in Handlers : SubscribeSaveCid(p)
    \/ \E p \in Handlers : StatusRead(p)
    \/ \E p \in Handlers : StatusQuery(p)
    \/ \E p \in Handlers : QuerySend(p)
    \/ \E p \in Handlers : QueryAnswer(p)
    \/ \E p \in Handlers : QueryFailed(p)
    \/ \E p \in Handlers : StatusSave(p)
    \/ \E p \in Handlers : Close(p)
    \/ Deliver(KnownNotifications, OneWebhook)
    \/ \E w \in Webhooks : CallbackFirst(w)
    \/ \E w \in Webhooks : CallbackSecond(w)
    \/ SweepStart("s1")
    \/ SweepStep("s1")
    \/ SweepEnd("s1")
    \/ SweepAgain("s1")

SpecOrphan == Init /\ [][NextOrphan]_vars

\* A run of the sweep over a collection: subscriptions are created and
\* paid, an hour passes, the gateway delivers the notifications of the
\* pushes and of the documents at least once, and a run of the sweep
\* interleaves with all of it, document by document.
NextSweep ==
    \/ Advance
    \/ \E p \in Handlers : SubscribeBegin(p, MaxSweepSubs, PayingRequests)
    \/ \E p \in Handlers : SubscribeCheck(p)
    \/ \E p \in Handlers : SubscribeCreate(p)
    \/ \E p \in Handlers : SubscribeInsert(p)
    \/ \E p \in Handlers : SubscribeSaved(p)
    \/ \E p \in Handlers : TokenGranted(p, {"tokA"}, {0})
    \/ \E p \in Handlers : PushSend(p)
    \/ \E p \in Handlers : PushAccepted(p)
    \/ \E p \in Handlers : SubscribeSaveCid(p)
    \/ \E p \in Handlers : Close(p)
    \/ Deliver(KnownNotifications, OneWebhook)
    \/ \E w \in Webhooks : CallbackFirst(w)
    \/ \E w \in Webhooks : CallbackSecond(w)
    \/ SweepStart("s1")
    \/ SweepStep("s1")
    \/ SweepEnd("s1")

SpecSweep == Init /\ [][NextSweep]_vars

\* Two runs of the sweep beside the webhook: a subscription is created and
\* paid, hours pass, the gateway delivers the notifications of the push at
\* least once, two of them may be in flight together, and two runs of the
\* sweep interleave with all of it and with each other.
NextRuns ==
    \/ AdvanceSweep
    \/ \E p \in Handlers : SubscribeBegin(p, MaxSubs, PayingRequests)
    \/ \E p \in Handlers : SubscribeCheck(p)
    \/ \E p \in Handlers : SubscribeCreate(p)
    \/ \E p \in Handlers : SubscribeInsert(p)
    \/ \E p \in Handlers : SubscribeSaved(p)
    \/ \E p \in Handlers : TokenGranted(p, {"tokA"}, {0})
    \/ \E p \in Handlers : PushSend(p)
    \/ \E p \in Handlers : PushAccepted(p)
    \/ \E p \in Handlers : SubscribeSaveCid(p)
    \/ \E p \in Handlers : Close(p)
    \/ Deliver(PushNotifications, MaxWebhooks)
    \/ \E w \in Webhooks : CallbackFirst(w)
    \/ \E r \in Sweepers : SweepStart(r)
    \/ \E r \in Sweepers : SweepStep(r)
    \/ \E r \in Sweepers : SweepEnd(r)

SpecRuns == Init /\ [][NextRuns]_vars

\* The scheduled sweep keeps running: node-cron fires the run again and
\* again, and every run goes through the collection to its end.  Beside it
\* a subscription is created and paid, hours pass and the webhook is
\* delivered notifications.
NextExpiry ==
    \/ AdvanceSweep
    \/ \E p \in Handlers : SubscribeBegin(p, MaxSubs, PayingRequests)
    \/ \E p \in Handlers : SubscribeCheck(p)
    \/ \E p \in Handlers : SubscribeCreate(p)
    \/ \E p \in Handlers : SubscribeInsert(p)
    \/ \E p \in Handlers : SubscribeSaved(p)
    \/ \E p \in Handlers : TokenGranted(p, {"tokA"}, {0})
    \/ \E p \in Handlers : PushSend(p)
    \/ \E p \in Handlers : PushAccepted(p)
    \/ \E p \in Handlers : SubscribeSaveCid(p)
    \/ \E p \in Handlers : Close(p)
    \/ Deliver(CompleteNotifications, OneWebhook)
    \/ \E w \in Webhooks : CallbackFirst(w)
    \/ \E w \in Webhooks : CallbackSecond(w)
    \/ SweepStart("s1")
    \/ SweepStep("s1")
    \/ SweepEnd("s1")
    \/ SweepAgain("s1")

SpecExpiry ==
    /\ Init
    /\ [][NextExpiry]_vars
    /\ WF_vars(SweepStart("s1"))
    /\ WF_vars(SweepStep("s1"))
    /\ WF_vars(SweepEnd("s1"))
    /\ WF_vars(SweepAgain("s1"))

\* The requests of two users' devices: without a phone number, for no plan,
\* for an unknown plan, or well-formed.
PairRequests == Requests(HourlyPlanInputs, {<<>>, GoodPhone})

\* Two subscribe requests in flight together, each sent to the gateway, and
\* the gateway's notifications: what the webhook finds among two documents.
NextPair ==
    \/ \E p \in Procs : SubscribeBegin(p, MaxPairSubs, PairRequests)
    \/ \E p \in Procs : SubscribeCheck(p)
    \/ \E p \in Procs : SubscribeCreate(p)
    \/ \E p \in Procs : SubscribeInsert(p)
    \/ \E p \in Procs : SubscribeSaved(p)
    \/ \E p \in Procs : TokenGranted(p, {"tokA"}, {0})
    \/ \E p \in Procs : PushSend(p)
    \/ \E p \in Procs : PushAccepted(p)
    \/ \E p \in Procs : SubscribeSaveCid(p)
    \/ \E p \in Procs : Close(p)
    \/ Deliver(CompleteNotifications, OneWebhook)
    \/ \E w \in Webhooks : CallbackFirst(w)
    \/ \E w \in Webhooks : CallbackSecond(w)

SpecPair == Init /\ [][NextPair]_vars

\* The plans: a subscription of any of them is created and paid, the
\* webhook, the status check and the sweep act on it and an hour passes.
NextPlans ==
    \/ Advance
    \/ \E p \in Handlers :
          SubscribeBegin(p, MaxSubs, Requests(PlanInputs, {GoodPhone}))
    \/ \E p \in Handlers : SubscribeCheck(p)
    \/ \E p \in Handlers : SubscribeCreate(p)
    \/ \E p \in Handlers : SubscribeInsert(p)
    \/ \E p \in Handlers : SubscribeSaved(p)
    \/ \E p \in Handlers : TokenGranted(p, {"tokA"}, {0})
    \/ \E p \in Handlers : PushSend(p)
    \/ \E p \in Handlers : PushAccepted(p)
    \/ \E p \in Handlers : SubscribeSaveCid(p)
    \/ \E p \in Handlers : StatusRead(p)
    \/ \E p \in Handlers : StatusQuery(p)
    \/ \E p \in Handlers : QuerySend(p)
    \/ \E p \in Handlers : QueryAnswer(p)
    \/ \E p \in Handlers : StatusSave(p)
    \/ \E p \in Handlers : Close(p)
    \/ Deliver(CompleteNotifications, OneWebhook)
    \/ \E w \in Webhooks : CallbackFirst(w)
    \/ \E w \in Webhooks : CallbackSecond(w)
    \/ SweepStart("s1")
    \/ SweepStep("s1")
    \/ SweepEnd("s1")
    \/ SweepAgain("s1")

InitPlans == InitIn(Zones)

SpecPlans == InitPlans /\ [][NextPlans]_vars

\* The phone normalizer on its own.
NextPhone ==
    \/ \E p \in Procs : FormatCall(p)
    \/ \E p \in Procs : FormatReturn(p)

SpecPhone == Init /\ [][NextPhone]_vars

\* ================================================================ claims
\* C1: while several getToken() calls are in flight on an empty or expired
\* cache, at most one token exchange is awaiting the gateway.
C1_SingleExchange == Cardinality(Exchanging) <= 1

\* C2: the callers whose exchanges were in flight together end with the same
\* result: the same token, or the same failure.
C2_SameResult ==
    \A p \in Procs, q \in Procs :
        (/\ procs[p].pc = "tok_ret"
         /\ procs[q].pc = "tok_ret"
         /\ q \in procs[p].peers)
        => (procs[p].res = procs[q].res /\ procs[p].cause = procs[q].cause)

TerminalStates == {"active", "failed", "expired", "cancelled"}

\* The step taken is the one in which the webhook handler answers.
CallbackStep == lastCb'.branch # "none"

\* The step taken is a lookup of the invocation w of the webhook handler,
\* on its notification cb[w].n.
LookupStepOf(w) == cb[w].pc # "idle" /\ cb'[w] # cb[w]

\* The step taken is the webhook handler taking up a notification: it
\* answers at once, or an invocation begins to await its first lookup.
TakeUpStep ==
    \/ CallbackStep /\ cb' = cb
    \/ \E w \in Webhooks : cb[w].pc = "idle" /\ cb'[w] # cb[w]

\* C3: the webhook handler changes nothing on a document that is already
\* active, failed, expired or cancelled.
C3_TerminalNoOp ==
    [][\A i \in 1..Len(subs) :
          (CallbackStep /\ subs[i].status \in TerminalStates)
          => subs'[i] = subs[i]]_vars

\* The step taken is the save() of the status check of handler p.
StatusSaveStep(p) == procs[p].pc = "st_save" /\ procs'[p].pc = "done"

\* C4: the save() of a status check leaves unchanged a document that the
\* webhook has moved out of pending since the status check read it.
C4_FirstTransitionWins ==
    [][\A p \in Procs :
          (StatusSaveStep(p) /\ subs[procs[p].sub].status # "pending")
          => subs'[procs[p].sub] = subs[procs[p].sub]]_vars

\* The CheckoutRequestIDs the gateway has issued for accepted pushes.
IssuedIds == {CheckoutIdOf[i] : i \in 1..issued}

\* C5: the notification of an accepted push, once it passes the handler's
\* validation, finds the document by the push's CheckoutRequestID: it is
\* never dropped because the id is not stored yet.
C5_CheckoutIdStoredFirst ==
    [][\A w \in Webhooks :
          (CallbackStep /\ LookupStepOf(w) /\ cb[w].n.cid \in IssuedIds)
          => lastCb'.branch = "updated"]_vars

\* C6: every notification is answered {ResultCode: 0} with status 200.
C6_AlwaysAccepted ==
    lastCb.branch # "none" => (lastCb.http = 200 /\ lastCb.code = 0)

\* The document is as a reconciliation of the success notification n left it.
ReconciledBy(doc, n) ==
    /\ doc.status = "active"
    /\ doc.mpesaCheckoutId = n.cid
    /\ doc.receiptNumber = n.receipt
    /\ doc.paidAmount = n.amount
    /\ doc.phoneNumber = n.phone
    /\ doc.mpesaTransactionDate = n.date

CompleteSuccess(n) ==
    /\ n.valid
    /\ ParseInt(n.rc) = Num(0)
    /\ n.receipt # Null
    /\ n.amount # NoDate
    /\ n.acctRef

\* C7: reconciling a success notification a second time changes no field of
\* the document (startDate keeps the value of the first reconciliation).
C7_SecondReconcileNoOp ==
    [][\A i \in 1..Len(subs), w \in Webhooks :
          (/\ LookupStepOf(w)
           /\ CompleteSuccess(cb[w].n)
           /\ ReconciledBy(subs[i], cb[w].n))
          => subs'[i] = subs[i]]_vars

AllowedTransitions ==
    {<<"pending", "active">>, <<"pending", "failed">>,
     <<"pending", "cancelled">>, <<"active", "expired">>,
     <<"active", "cancelled">>}

\* C8: every change of a document's status is one of the allowed
\* transitions.
C8_OnlyAllowedTransitions ==
    [][\A i \in 1..Len(subs) :
          subs'[i].status # subs[i].status
          => <<subs[i].status, subs'[i].status>> \in AllowedTransitions]_vars

\* The success notification n lacks the receipt number, the amount or the
\* account reference.
LacksMetadata(n) ==
    /\ n.valid
    /\ ParseInt(n.rc) = Num(0)
    /\ (n.receipt = Null \/ n.amount = NoDate \/ ~n.acctRef)

\* C9: a success notification that lacks the receipt number, the amount or
\* the account reference leaves every document unchanged: the step that
\* takes a notification up changes no document and sends no lookup for one
\* that lacks an item, and no lookup in flight is the handling of one.
C9_MissingMetadataNoMutation ==
    [][/\ TakeUpStep
             => (subs' = subs /\ \A w \in Webhooks : ~LacksMetadata(cb'[w].n))
       /\ \A w \in Webhooks :
             LookupStepOf(w) => ~LacksMetadata(cb[w].n)]_vars

\* C9 witness: such a notification was handled while the document it names
\* was pending with its checkout id stored.
C9_Witness ==
    /\ lastCb.branch = "missing_metadata"
    /\ lastCb.sub # 0
    /\ subs[lastCb.sub].status = "pending"
    /\ subs[lastCb.sub].mpesaCheckoutId # Null

\* C10: a complete success notification for a pending document with that
\* checkout id makes it active, with the receipt number, the amount and the
\* payer phone of the notification and startDate set to the present.
C10_SuccessActivates ==
    [][\A i \in 1..Len(subs), w \in Webhooks :
          (/\ LookupStepOf(w)
           /\ CompleteSuccess(cb[w].n)
           /\ subs[i].status = "pending"
           /\ subs[i].mpesaCheckoutId = cb[w].n.cid)
          => /\ subs'[i].status = "active"
             /\ subs'[i].receiptNumber = cb[w].n.receipt
             /\ subs'[i].paidAmount = cb[w].n.amount
             /\ subs'[i].phoneNumber = cb[w].n.phone
             /\ subs'[i].startDate = cb[w].t
             /\ subs'[i].startDate # NoDate]_vars

\* C10 witness: the webhook has just activated a document by its checkout
\* id, and the document carries the notification's receipt.
C10_Witness ==
    /\ lastCb.branch = "updated"
    /\ lastCb.sub # 0
    /\ subs[lastCb.sub].status = "active"
    /\ subs[lastCb.sub].receiptNumber = "ABC123"
    /\ subs[lastCb.sub].paidAmount = 100
    /\ subs[lastCb.sub].startDate # NoDate
    /\ subs[lastCb.sub].startDate <= now

\* C11: a notification with a nonzero result code for a pending document
\* with that checkout id makes it failed, with the notification's result
\* description as the failure reason, and leaves startDate unset.
C11_FailureFails ==
    [][\A i \in 1..Len(subs), w \in Webhooks :
          (/\ LookupStepOf(w)
           /\ ParseInt(cb[w].n.rc) # Num(0)
           /\ subs[i].status = "pending"
           /\ subs[i].mpesaCheckoutId = cb[w].n.cid)
          => /\ subs'[i].status = "failed"
             /\ subs'[i].failedReason = cb[w].n.desc
             /\ subs'[i].startDate = NoDate]_vars

\* C11 witness: the webhook has just failed a document by its checkout id;
\* the document carries the cancellation message and no startDate.
C11_Witness ==
    /\ lastCb.branch = "updated"
    /\ lastCb.sub # 0
    /\ subs[lastCb.sub].status = "failed"
    /\ subs[lastCb.sub].failedReason = "Request cancelled by user"
    /\ subs[lastCb.sub].startDate = NoDate

\* C12: a document's startDate is set if and only if its status has at some
\* point been active, and once set it never changes.  Step by step: a new
\* document has none; a document without one gets one exactly when the step
\* leaves it active; a document with one keeps it.
C12_StartDateIffEverActive ==
    [][\A i \in 1..Len(subs') :
          IF i > Len(subs)
          THEN subs'[i].startDate = NoDate /\ subs'[i].status # "active"
          ELSE /\ subs[i].startDate = NoDate
                    => (subs'[i].startDate # NoDate
                          <=> subs'[i].status = "active")
               /\ subs[i].startDate # NoDate
                    => subs'[i].startDate = subs[i].startDate]_vars

\* The step taken is a call of getMpesaToken by p, the recursive call of a
\* retry included.
EntersGetToken(p) ==
    /\ procs[p].pc \notin {"tok_wait", "tok_ret"}
    /\ procs'[p].pc \in {"tok_wait", "tok_ret"}

\* C13: a call made while the cached token has more than 30 seconds left
\* returns that token, sends no exchange request and leaves the cache alone.
C13_CachedTokenReturned ==
    [][\A p \in Procs :
          (/\ EntersGetToken(p)
           /\ tokenCache.token # Null
           /\ tokenCache.expiresAt - now > 30)
          => /\ procs'[p].pc = "tok_ret"
             /\ procs'[p].res = tokenCache.token
             /\ procs'[p].sent = procs[p].sent
             /\ tokenCache' = tokenCache]_vars

\* C13 witness: a call has returned the cached token without having sent a
\* request, and that token still has more than 30 seconds left.
C13_Witness ==
    \E p \in Procs :
        /\ procs[p].pc = "tok_ret"
        /\ procs[p].sent = 0
        /\ procs[p].res # Null
        /\ procs[p].res = tokenCache.token
        /\ tokenCache.expiresAt - now > 30

\* C14: a call made while the cache is empty or its token has less than 30
\* seconds left sends one exchange request; when the gateway answers that
\* request with a token and a lifetime, the call has sent exactly one
\* request, returns the new token, and the cache holds that token with
\* expiresAt = now + the reported lifetime.
C14_OneRefresh ==
    [][\A p \in Procs :
          /\ (/\ procs[p].pc = "idle"
               /\ EntersGetToken(p)
               /\ (tokenCache.token = Null
                      \/ tokenCache.expiresAt - now < 30))
              => (procs'[p].pc = "tok_wait" /\ procs'[p].sent = 1)
          /\ \A tok \in Tokens, life \in Lifetimes \ {0} :
                (procs[p].sent = 1 /\ TokenGrant(p, tok, life))
                => /\ procs'[p].pc = "tok_ret"
                   /\ procs'[p].sent = 1
                   /\ procs'[p].res = tok
                   /\ tokenCache' = [token |-> tok,
                                     expiresAt |-> now + life]]_vars

\* C14 witness: q obtained a token by an exchange, and p, whose exchange was
\* not in flight together with q's, found that token stale, sent one
\* request and replaced it: the cache holds p's token for the reported 45 s.
C14_Witness ==
    \E p \in Procs, q \in Procs :
        /\ p # q
        /\ procs[p].pc = "tok_ret" /\ procs[q].pc = "tok_ret"
        /\ procs[p].sent = 1 /\ procs[q].sent = 1
        /\ procs[p].res # Null /\ procs[q].res # Null
        /\ procs[p].res # procs[q].res
        /\ q \notin procs[p].peers /\ p \notin procs[q].peers
        /\ tokenCache.token = procs[p].res
        /\ tokenCache.expiresAt = now + 45

\* C15: a call whose every exchange fails transiently ends: from its first
\* request it comes to fail with the cause of its last exchange, having sent
\* the first request and at most DefaultRetries more.
C15_RetriesTerminate ==
    \A p \in Procs :
        (procs[p].pc = "tok_wait" /\ procs[p].sent = 1)
        ~> (/\ procs[p].pc = "tok_ret"
            /\ procs[p].res = Null
            /\ procs[p].cause \in TransientFailures
            /\ procs[p].sent <= DefaultRetries + 1)

\* C15 witness: a call has failed after the first request and all the
\* retries.
C15_Witness ==
    \E p \in Procs :
        /\ procs[p].pc = "tok_ret"
        /\ procs[p].res = Null
        /\ procs[p].retries = 0
        /\ procs[p].sent = DefaultRetries + 1
        /\ procs[p].cause \in TransientFailures

\* The failures the call is not to retry: the request timeout and a client
\* error (a 4xx answer).
HardFailures == {"timeout", "http4xx"}

\* C16: an exchange that fails with the timeout or with a client error ends
\* the call with a failure; it is not retried.
C16_HardFailureNotRetried ==
    [][\A p \in Procs, f \in HardFailures :
          TokenFail(p, f)
          => (procs'[p].pc = "tok_ret" /\ procs'[p].res = Null)]_vars

\* C17: when the gateway rejects the access token of a push or of a status
\* query, the cache no longer holds that token afterwards.
C17_AuthFailureInvalidates ==
    [][\A p \in Procs :
          (PushReject(p, "auth") \/ QueryReply(p, Null))
          => tokenCache'.token # procs[p].res]_vars

\* The step taken is the run r examining its next document.
SweepStepOf(r) ==
    /\ sweeps[r].pc = "run"
    /\ sweeps'[r].next = sweeps[r].next + 1

\* C18: a run whose now is after the endDate of an active document moves it
\* to expired and counts it; a run that comes to a document already expired
\* leaves it unchanged and does not count it.
C18_ExpiredOnce ==
    [][\A r \in Sweepers :
          SweepStepOf(r) =>
             LET i == sweeps[r].next IN
             /\ (subs[i].status = "active" /\ subs[i].endDate < sweeps[r].t)
                 => /\ subs'[i].status = "expired"
                    /\ sweeps'[r].count = sweeps[r].count + 1
             /\ subs[i].status = "expired"
                 => /\ subs'[i] = subs[i]
                    /\ sweeps'[r].count = sweeps[r].count]_vars

\* C18 witness: two runs have ended, both begun after the endDate of a
\* document paid for in an earlier hour; the document is expired, one run
\* counted it and the other counted nothing.
C18_Witness ==
    \E r1 \in Sweepers, r2 \in Sweepers, i \in 1..Len(subs) :
        /\ r1 # r2
        /\ sweeps[r1].pc = "done" /\ sweeps[r2].pc = "done"
        /\ sweeps[r1].count = 1 /\ sweeps[r2].count = 0
        /\ subs[i].status = "expired"
        /\ subs[i].startDate # NoDate
        /\ subs[i].startDate < sweeps[r1].t /\ subs[i].startDate < sweeps[r2].t
        /\ subs[i].endDate < sweeps[r1].t /\ subs[i].endDate < sweeps[r2].t
        /\ \A j \in 1..Len(subs) : j # i => subs[j].status # "expired"

\* C19: a run moves to expired the documents that are active with an
\* endDate not later than its now, and counts each; it changes no other
\* document and counts none of them; it returns its count.
C19_SweepFrame ==
    [][\A r \in Sweepers :
          /\ SweepStepOf(r) =>
                LET i == sweeps[r].next
                    due == /\ subs[i].status = "active"
                           /\ subs[i].endDate <= sweeps[r].t
                IN
                /\ Len(subs') = Len(subs)
                /\ due => /\ subs'[i] = [subs[i] EXCEPT !.status = "expired"]
                          /\ sweeps'[r].count = sweeps[r].count + 1
                /\ ~due => /\ subs'[i] = subs[i]
                           /\ sweeps'[r].count = sweeps[r].count
                /\ \A j \in 1..Len(subs) : j # i => subs'[j] = subs[j]
          /\ (sweeps[r].pc = "run" /\ sweeps'[r].pc = "done")
                => /\ sweeps'[r].count = sweeps[r].count
                   /\ subs' = subs]_vars

\* C19 witness: a run has ended having counted one document, which is
\* expired with its endDate at the run's now, beside an active document
\* whose endDate is later.
C19_Witness ==
    \E r \in Sweepers, i \in 1..Len(subs), j \in 1..Len(subs) :
        /\ sweeps[r].pc = "done"
        /\ sweeps[r].count = 1
        /\ subs[i].status = "expired"
        /\ subs[i].endDate = sweeps[r].t
        /\ subs[j].status = "active"
        /\ subs[j].endDate > sweeps[r].t

\* The sum of the counts of the runs S, sw being the runs.
RECURSIVE SumCounts(_, _)
SumCounts(sw, S) ==
    IF S = {} THEN 0
    ELSE LET r == CHOOSE x \in S : TRUE IN
         sw[r].count + SumCounts(sw, S \ {r})

\* C20: while two runs are in flight together, no document has been moved
\* to expired by both, and the counts of the runs add up to the number of
\* documents moved.
C20_ConcurrentSweeps ==
    (\A r \in Sweepers : sweeps[r].pc = "run")
    => /\ \A r1 \in Sweepers, r2 \in Sweepers :
             r1 # r2 => sweeps[r1].moved \cap sweeps[r2].moved = {}
       /\ SumCounts(sweeps, Sweepers)
            = Cardinality(UNION {sweeps[r].moved : r \in Sweepers})

\* The separators a phone number may be written with.
Separators == {" ", "-"}
IsNoSeparator(c) == c \notin Separators
Unseparated(phone) == SelectSeq(phone, IsNoSeparator)

CountryCode == <<"2", "5", "4">>

\* The four accepted shapes of the subscriber number Sub7.
AcceptedShapes ==
    {<<"0">> \o Sub7, Sub7, CountryCode \o Sub7,
     <<"+">> \o CountryCode \o Sub7}

\* C21: the four accepted shapes of one subscriber number, with or without
\* separators, all normalize to the country code followed by that number.
C21_ShapesAgree ==
    \A p \in Procs :
        (/\ procs[p].pc = "fmt_ret"
         /\ Unseparated(procs[p].phone) \in AcceptedShapes)
        => (/\ procs[p].cause = Null
            /\ procs[p].formatted = CountryCode \o Sub7
            /\ Len(procs[p].formatted) = 12)

\* C21 witness: the two callers hold the same canonical number, one from
\* the shape with + and separators, the other from the bare 9 digits.
C21_Witness ==
    \E p \in Procs, q \in Procs :
        /\ procs[p].pc = "fmt_ret" /\ procs[q].pc = "fmt_ret"
        /\ procs[p].phone # Unseparated(procs[p].phone)
        /\ Unseparated(procs[p].phone) = <<"+">> \o CountryCode \o Sub7
        /\ procs[q].phone = Sub7
        /\ procs[p].formatted = procs[q].formatted
        /\ procs[p].formatted = CountryCode \o Sub7

\* C22: every value the normalizer returns is 12 digits, the country code
\* followed by 9 digits.
C22_OnlyCanonical ==
    \A p \in Procs :
        (procs[p].pc = "fmt_ret" /\ procs[p].cause = Null)
        => (/\ Len(procs[p].formatted) = 12
            /\ StartsWith(procs[p].formatted, CountryCode)
            /\ \A k \in 1..Len(procs[p].formatted) :
                   IsDigit(procs[p].formatted[k]))

\* The handler p is a subscribe request whose phone number the normalizer
\* rejects.
BadPhoneRequest(p) ==
    /\ procs[p].kind = "subscribe"
    /\ ~FormatPhoneNumber(procs[p].phone).ok

\* C23: a subscribe request with a badly formatted phone number is answered
\* with a 4xx status and a message other than that of the authentication,
\* gateway and network failures.
C23_BadPhoneIsValidationError ==
    \A p \in Procs :
        (/\ BadPhoneRequest(p)
         /\ procs[p].pc = "done"
         /\ procs[p].res # Null)
        => (/\ procs[p].http >= 400 /\ procs[p].http < 500
            /\ procs[p].msg # UserFriendlyMessage(TokenError)
            /\ procs[p].msg # UserFriendlyMessage(PushError(PushAnswer("network"))))

\* C24: a push answered with a ResponseCode other than "0" fails with the
\* errorMap sentence of a known code, and with the gateway's description for
\* an unknown code.
C24_GatewayMessage ==
    [][\A p \in Procs, why \in {"rejected", "rejected_unknown"} :
          PushReject(p, why)
          => procs'[p].msg =
                IF ErrorMap(PushAnswer(why).code) # Null
                THEN ErrorMap(PushAnswer(why).code)
                ELSE PushAnswer(why).desc]_vars

\* C25: a handler sends at most one push or one query to the gateway.
C25_NoResubmission ==
    \A p \in Procs : procs[p].reqs <= 1

\* C25 witness: a subscribe request was answered 500 after its push failed,
\* having sent one push; its token call was over.
C25_Witness ==
    \E p \in Procs :
        /\ procs[p].pc = "done"
        /\ procs[p].kind = "subscribe"
        /\ procs[p].http = 500
        /\ procs[p].formatted # <<>>
        /\ procs[p].reqs = 1

\* C30: a subscribe request with a badly formatted phone number sends no
\* token exchange and no push.
C30_PhoneBeforeToken ==
    \A p \in Procs :
        BadPhoneRequest(p)
        => (/\ procs[p].pc \notin {"tok_wait", "tok_delay", "push_wait"}
            /\ procs[p].sent = 0
            /\ procs[p].reqs = 0)

\* The duration of a plan as the claim states it, in seconds: its hours,
\* otherwise its days, otherwise 30 days.
PlanDuration(plan) ==
    IF plan.durationHours # 0 THEN plan.durationHours * 3600
    ELSE IF plan.durationDays # 0 THEN plan.durationDays * 24 * 3600
    ELSE 30 * 24 * 3600

PlanNamed(name) == CHOOSE plan \in {PlanDocs[k] : k \in 1..Len(PlanDocs)} :
                      plan.plan = name

\* C29: a document is created pending with endDate = its creation time plus
\* the duration of its plan (so many hours, or days, of elapsed time), and
\* no step changes the endDate of a document.
C29_EndDateFixed ==
    [][\A i \in 1..Len(subs') :
          IF i > Len(subs)
          THEN /\ subs'[i].status = "pending"
               /\ subs'[i].endDate # NoDate
               /\ subs'[i].endDate
                    = subs'[i].createdAt + PlanDuration(PlanNamed(subs'[i].plan))
          ELSE subs'[i].endDate = subs[i].endDate]_vars

\* The correlation id of n matches no document, neither as its
\* mpesaCheckoutId nor as its _id.
MatchesNone(n) ==
    \/ ~Truthy(n.cid)
    \/ \A i \in 1..Len(subs) :
          subs[i].mpesaCheckoutId # n.cid /\ IdOf[i] # n.cid

\* C26: the webhook handler changes no document when the correlation id of
\* the notification matches none, neither as mpesaCheckoutId nor as _id:
\* neither the step that takes the notification up nor a lookup made when
\* the id matches none.
C26_UnmatchedChangesNothing ==
    [][/\ TakeUpStep => subs' = subs
       /\ \A w \in Webhooks :
             (LookupStepOf(w) /\ MatchesNone(cb[w].n)) => subs' = subs]_vars

\* C26 witness: a complete success notification naming an ObjectId of no
\* document was handled while a pending document waited for its payment;
\* it was acknowledged and the document is still pending.
C26_Witness ==
    /\ lastCb.branch = "not_found"
    /\ lastCb.sub = 0
    /\ \E i \in 1..Len(subs) :
          subs[i].status = "pending" /\ subs[i].mpesaCheckoutId # Null

\* C27: a notification whose correlation id is the mpesaCheckoutId of a
\* document updates that document through the first lookup and no other
\* document; the _id lookup updates a document only when no document has the
\* correlation id as its mpesaCheckoutId.
C27_CheckoutIdFirst ==
    [][\A w \in Webhooks :
          LookupStepOf(w)
          => LET hit == FindByCheckoutId(cb[w].n.cid) IN
             /\ (cb[w].pc = "first" /\ hit # 0)
                 => /\ lastCb'.branch = "updated"
                    /\ subs'[hit]
                         = ApplyUpdate(schema, subs[hit],
                                       SubscriptionUpdate(cb[w].n, cb[w].t))
                    /\ \A i \in 1..Len(subs) : i # hit => subs'[i] = subs[i]
             /\ (cb[w].pc = "first" /\ hit = 0) => subs' = subs
             /\ cb'[w].pc = "second" => (cb[w].pc = "first" /\ hit = 0)
             /\ lastCb'.branch = "updated_by_id"
                 => /\ cb[w].pc = "second"
                    /\ hit = 0
                    /\ \A i \in 1..Len(subs) :
                          IdOf[i] # cb[w].n.cid => subs'[i] = subs[i]]_vars

\* C27 witness: of two documents with a checkout id each, the second was
\* activated by the notification naming its checkout id, through the first
\* lookup, and the first document is still pending.
C27_Witness ==
    /\ Len(subs) = 2
    /\ lastCb.branch = "updated"
    /\ lastCb.sub = 2
    /\ subs[2].status = "active"
    /\ subs[1].status = "pending"
    /\ subs[1].mpesaCheckoutId # Null

\* C28: no two documents carry the same mpesaCheckoutId, unless it is null.
C28_CheckoutIdUnique ==
    \A i \in 1..Len(subs), j \in 1..Len(subs) :
        (i # j /\ subs[i].mpesaCheckoutId # Null)
        => subs[i].mpesaCheckoutId # subs[j].mpesaCheckoutId

\* C28 witness: two requests in flight together both had their checkout id
\* saved, and the document inserted second got the id issued first.
C28_Witness ==
    /\ Len(subs) = 2
    /\ subs[1].mpesaCheckoutId = CheckoutIdOf[2]
    /\ subs[2].mpesaCheckoutId = CheckoutIdOf[1]

\* The status check of p ends without a success of its query: the token
\* could not be had, the query got no answer, or its answer does not report
\* success.
QueryUnsuccessful(p) ==
    \/ QuerySend(p) /\ procs[p].res = Null
    \/ QueryFailed(p)
    \/ \E rc \in QueryCodeInputs \ {"0"} : QueryReply(p, rc)

\* C31: a status check goes to the gateway only for a document that is
\* pending and has a checkout id; for any other document it sends nothing,
\* changes nothing and answers with the status it read; and a query that
\* fails or reports no success leaves the documents as they are and the
\* check answers 200 with the status it read.
C31_StatusCheckFrame ==
    [][\A p \in Procs :
          /\ StatusRead(p)
                => /\ subs' = subs
                   /\ procs'[p].reqs = 0
                   /\ IF procs'[p].pc = "st_found"
                      THEN /\ procs'[p].sub \in 1..Len(subs)
                           /\ subs[procs'[p].sub].status = "pending"
                           /\ Truthy(subs[procs'[p].sub].mpesaCheckoutId)
                      ELSE /\ procs'[p].pc = "done"
                           /\ procs'[p].sent = 0
                           /\ procs'[p].http \in {404, 500}
                                \/ \E i \in 1..Len(subs) :
                                      /\ ~(/\ subs[i].status = "pending"
                                            /\ Truthy(subs[i].mpesaCheckoutId))
                                      /\ procs'[p].http = 200
                                      /\ procs'[p].res = subs[i].status
          /\ (procs[p].kind = "status" /\ QueryUnsuccessful(p))
                => /\ subs' = subs
                   /\ procs'[p].pc = "done"
                   /\ procs'[p].http = 200
                   /\ procs'[p].res = "pending"]_vars

\* C31 witness: the query of a status check was sent for a pending document
\* with a checkout id and did not report success; the check answered
\* "pending" and the document is still pending.
C31_Witness ==
    \E p \in Procs :
        /\ procs[p].kind = "status"
        /\ procs[p].pc = "done"
        /\ procs[p].reqs = 1
        /\ procs[p].res = "pending"
        /\ subs[procs[p].sub].status = "pending"
        /\ subs[procs[p].sub].mpesaCheckoutId # Null

\* C32: while the sweep keeps running, a document that is active with its
\* endDate in the past comes to be expired.
C32_EventuallyExpired ==
    \A i \in 1..MaxSubs :
        (/\ i <= Len(subs)
         /\ subs[i].status = "active"
         /\ subs[i].endDate < now)
        ~> (i <= Len(subs) /\ subs[i].status = "expired")

\* C33: a user has at most one document per category that is active with
\* its endDate in the future.
C33_OneActivePerCategory ==
    \A i \in 1..Len(subs), j \in 1..Len(subs) :
        (/\ i # j
         /\ subs[i].userId = subs[j].userId
         /\ subs[i].category = subs[j].category
         /\ subs[i].status = "active" /\ subs[i].endDate > now)
        => ~(subs[j].status = "active" /\ subs[j].endDate > now)

\* C34: a document whose status is active carries a receiptNumber and a
\* paidAmount.
C34_ActiveIsPaid ==
    \A i \in 1..Len(subs) :
        subs[i].status = "active"
        => (subs[i].receiptNumber # Null /\ subs[i].paidAmount # NoDate)

\* The push of the subscribe request p fails: no token, a phone number that
\* is refused, a rejection by the gateway or no answer.
PushFailureStep(p) ==
    /\ procs[p].kind = "subscribe"
    /\ \/ PushSend(p) /\ procs'[p].pc = "done"
       \/ PushFailed(p)

\* The step is one of the status check of p, or a run of the sweep.
StatusOrSweepStep(p) ==
    \/ StatusRead(p)
    \/ procs[p].kind = "status" /\ procs'[p] # procs[p]
    \/ \E r \in Sweepers : sweeps'[r] # sweeps[r]

\* C35: a push that fails leaves the documents as they are, the document of
\* the request without checkout id, and the request is answered with an
\* error; and no step of a status check or of the sweep changes a document
\* that is pending without checkout id.
C35_OrphanUntouched ==
    [][\A p \in Procs :
          /\ PushFailureStep(p)
                => /\ subs' = subs
                   /\ subs[procs[p].sub].mpesaCheckoutId = Null
                   /\ procs'[p].http >= 400
          /\ StatusOrSweepStep(p)
                => \A i \in 1..Len(subs) :
                      (/\ subs[i].status = "pending"
                       /\ subs[i].mpesaCheckoutId = Null)
                      => subs'[i] = subs[i]]_vars

\* C35 witness: the push of the only request has failed and its handler is
\* gone; an hour later, at the endDate of the document, a status check has
\* answered "pending" without a query and a run of the sweep taken at that
\* time has scanned to its end with a count of 0, and the document is still
\* pending without checkout id.
C35_Witness ==
    \E p \in Procs :
        /\ procs[p].kind = "idle"
        /\ procs[p].pc = "done"
        /\ procs[p].http = 200
        /\ procs[p].res = "pending"
        /\ Len(subs) = 1
        /\ subs[1].status = "pending"
        /\ subs[1].mpesaCheckoutId = Null
        /\ subs[1].endDate <= now
        /\ issued = 0
        /\ sweeps["s1"].pc = "done"
        /\ sweeps["s1"].t >= subs[1].endDate
        /\ sweeps["s1"].count = 0

\* C36: the handling of one notification changes at most one document, and
\* neither adds nor removes one.
C36_AtMostOneChanged ==
    [][CallbackStep
       => /\ Len(subs') = Len(subs)
          /\ Cardinality({i \in 1..Len(subs) : subs'[i] # subs[i]}) <= 1]_vars

\* C36 witness: of two pending documents with a checkout id each, a
\* failure notification has failed the first; the second is still pending.
C36_Witness ==
    /\ Len(subs) = 2
    /\ lastCb.branch = "updated"
    /\ lastCb.sub = 1
    /\ subs[1].status = "failed"
    /\ subs[2].status = "pending"
    /\ subs[2].mpesaCheckoutId # Null

\* C37: an exchange that fails, whether the call retries or gives up,
\* leaves the cache as it is; a step that changes the cache is the grant of
\* a token, and the cache then holds that token.
C37_FailureKeepsCache ==
    [][/\ \A p \in Procs, f \in TokenFailures :
             TokenFail(p, f) => tokenCache' = tokenCache
       /\ tokenCache' # tokenCache
             => \E p \in Procs, tok \in Tokens, life \in Lifetimes :
                   /\ TokenGrant(p, tok, life)
                   /\ tokenCache'.token = tok]_vars

\* C37 witness: a call has sent its request and given up while the cache
\* holds the token of an earlier exchange, now within 30 seconds of its end.
C37_Witness ==
    \E p \in Procs :
        /\ procs[p].pc = "tok_ret"
        /\ procs[p].res = Null
        /\ procs[p].cause # Null
        /\ procs[p].sent >= 1
        /\ tokenCache.token # Null
        /\ tokenCache.expiresAt - now <= 30

\* C38: the normalizer accepts every value it returns and returns it as it
\* is.
C38_Idempotent ==
    \A p \in Procs :
        (procs[p].pc = "fmt_ret" /\ procs[p].cause = Null)
        => LET again == FormatPhoneNumber(procs[p].formatted) IN
           again.ok /\ again.value = procs[p].formatted

\* The step answers the request of p with 400; it inserts no document and
\* nothing has been sent to the gateway.
RejectedAtOnce(p) ==
    /\ procs'[p].pc = "done"
    /\ procs'[p].http = 400
    /\ procs'[p].sent = 0
    /\ procs'[p].reqs = 0
    /\ subs' = subs
    /\ issued' = issued

\* C39: a subscribe request answered at its validation, at the lookup of
\* its plan or at the check of an active subscription is answered 400,
\* inserts no document and sends nothing to the gateway; and a request that
\* goes on to insert its document has a phone number, names a stored plan
\* and comes from a user without an active, unexpired document in the
\* plan's category.
C39_RejectedCreatesNothing ==
    [][\A p \in Procs :
          /\ SubscribeBegin(p, MaxPairSubs, PairRequests)
             => IF procs'[p].pc = "sub_check"
                THEN /\ procs'[p].phone # <<>>
                     /\ procs'[p].plan \in 1..Len(PlanDocs)
                     /\ subs' = subs
                ELSE RejectedAtOnce(p)
          /\ SubscribeCheck(p)
             => IF procs'[p].pc = "sub_checked"
                THEN /\ ~\E i \in 1..Len(subs) :
                           /\ subs[i].userId = procs[p].user
                           /\ subs[i].category =
                                 PlanDocs[procs[p].plan].category
                           /\ subs[i].status = "active"
                           /\ subs[i].endDate > procs[p].t
                     /\ subs' = subs
                ELSE RejectedAtOnce(p)]_vars

\* C39 witness: the user has an active document with its endDate ahead, so
\* that any further request for the category is refused; a request has
\* been answered 400 before it had a document, and the collection holds
\* the one document, the gateway has issued the one checkout id.
C39_Witness ==
    \E p \in Procs :
        /\ procs[p].kind = "subscribe"
        /\ procs[p].pc = "done"
        /\ procs[p].http = 400
        /\ procs[p].sub = 0
        /\ procs[p].reqs = 0
        /\ \A q \in Procs \ {p} : procs[q].pc = "idle"
        /\ Len(subs) = 1
        /\ subs[1].status = "active"
        /\ subs[1].endDate > now
        /\ issued = 1

====
